---- MODULE Spec2Model ----
(***************************************************************************)
(* Student/teacher portal: the assignment / submission / grading lifecycle *)
(* of the REST server, as a state machine over the database collections.  *)
(*                                                                         *)
(* The repository holds several copies of the server.  The complete,      *)
(* current one is src/unnamed/part_001 (specification Spec).  The file    *)
(* src/Backend/server.js holds three older copies back to back: lines     *)
(* 1-290 (specification SpecV1), 292-515 and 517-1428 (specification      *)
(* SpecV3).  Every copy talks to the same collections, so all of them are *)
(* modelled over the same variables.                                       *)
(***************************************************************************)
EXTENDS Integers, Sequences, FiniteSets, TLC

(***************************************************************************)
(* Bounds of the model.                                                    *)
(***************************************************************************)
MaxCourses == 1
MaxAssignments == 1
MaxTime == 1
MaxUploads == 2
MaxFilesPerRequest == 1
MaxRequests == 2

Students == {"s1", "s2"}
Teachers == {"t1", "t2"}
Users == Students \cup Teachers

VARIABLES
    courses,      \* the Course collection, in insertion order
    assignments,  \* the Assignment collection, in insertion order
    cloud,        \* urls of the objects held by the remote file store
    nextUrl,      \* the remote store hands out a fresh url per upload
    now,          \* the server clock (new Date())
    res,          \* the last request and the response it got
    users,        \* the User collection: the accounts created by signup
    messages,     \* the Message collection, in insertion order
    inflight,     \* the requests being handled concurrently, per slot
    nextToken     \* uuidv4 hands out a fresh password-reset token per call

vars == <<courses, assignments, cloud, nextUrl, now, res, users, messages, inflight, nextToken>>

(***************************************************************************)
(* JavaScript values.  null / undefined are the empty tuple, a present     *)
(* value v is <<v>>; request-body values of unknown type are tagged.       *)
(***************************************************************************)
None == <<>>
Some(v) == <<v>>

Undef == <<"undefined">>
JNull == <<"null">>
Num(n) == <<"number", n>>
Str(s) == <<"string", s>>
NaN == <<"NaN">>

\* Number(x) on the request values the model sends
ToNumber(x) ==
    CASE x[1] = "number" -> x
      [] x[1] = "null" -> Num(0)
      [] x[1] = "undefined" -> NaN
      [] x[1] = "string" ->
            IF x[2] = "" THEN Num(0)
            ELSE IF x[2] = "10" THEN Num(10)
            ELSE IF x[2] = "-5" THEN Num(0 - 5)
            ELSE NaN

\* !x : JavaScript falsiness of a request value
Falsy(x) ==
    \/ x[1] \in {"undefined", "null", "NaN"}
    \/ x[1] = "number" /\ x[2] = 0
    \/ x[1] = "string" /\ x[2] = ""

\* accounts whose role is neither "student" nor "teacher"
Others == {"g1"}

\* the role in the caller's token, { id, role }
Role(u) ==
    IF u \in Students THEN "student"
    ELSE IF u \in Teachers THEN "teacher" ELSE "other"

\* the user documents the handlers look up (name, roll number, email)
UserName(u) == u
RollNumber(u) == IF u \in Students THEN Some(u) ELSE None
Email(u) == IF u \in Teachers THEN Some(u) ELSE None

\* process.env.ADMIN_EMAIL || null (not set)
ADMIN_EMAIL == None

Includes(s, x) == \E i \in 1..Len(s) : s[i] = x

\* Array.prototype.find / Model.findOne over the matching positions: the first
\* one, 0 when there is none
First(matches) ==
    IF matches = {} THEN 0
    ELSE CHOOSE i \in matches : \A j \in matches : i <= j

\* Model.findOne({ id }) : the index of the document, 0 when absent
FindCourse(cid) == First({i \in 1..Len(courses) : courses[i].id = cid})
FindAssignment(aid) == First({i \in 1..Len(assignments) : assignments[i].id = aid})
FindSubmission(a, sid) ==
    First({k \in 1..Len(a.submissions) : a.submissions[k].studentId = sid})

Response(op, user, target, student, status, body) ==
    [op |-> op, user |-> user, target |-> target, student |-> student,
     status |-> status, body |-> body]

(***************************************************************************)
(* Request inputs.                                                         *)
(***************************************************************************)
\* the bodies sent to POST /api/courses (code 0: no code)
CourseRequests ==
    {[name |-> "Algorithms", code |-> c] : c \in 0..MaxCourses}
    \cup {[name |-> "", code |-> 1]}
Titles == {"", "HW1"}
FileNames == {"a.pdf"}
MaxMarksInputs == {Undef, JNull, Num(0 - 5), Num(0), Num(10), Str("10"), Str("abc")}
DueInputs == {None} \cup {Some(t) : t \in 0..MaxTime}
MarksInputs == {Some(5)}
FeedbackInputs == {Some(""), Some("Good job")}

\* the bodies sent to POST /api/assignments: the well-formed ones, and the
\* ones with one field missing or malformed (courseId 0: no courseId)
AssignmentRequests ==
    {[courseId |-> c, title |-> "HW1", dueDate |-> d, maxMarks |-> Num(10)] :
        c \in 1..MaxCourses, d \in DueInputs}
    \cup {[courseId |-> c, title |-> "HW1", dueDate |-> None, maxMarks |-> m] :
        c \in 1..MaxCourses, m \in MaxMarksInputs}
    \cup {[courseId |-> c, title |-> t, dueDate |-> None, maxMarks |-> Num(10)] :
        c \in 0..MaxCourses, t \in Titles}
RequestFiles ==
    UNION {[1..n -> FileNames] : n \in 0..MaxFilesPerRequest}

(***************************************************************************)
(* The remote file store (Cloudinary).                                     *)
(***************************************************************************)
\* uploadToCloudinary, for the i-th file of a request: the stored file object
FileMeta(files, i) == [url |-> nextUrl + i - 1, originalName |-> files[i]]

\* the file objects of the first n files of a request, in order
Uploaded(files, n) == [i \in 1..n |-> FileMeta(files, i)]

\* the transfers of a request leave nothing in the remote store
CloudRolledBack(n) == cloud

\* the remote store after the first n files of a request were transferred
CloudAfter(n) == cloud \cup {nextUrl + i - 1 : i \in 1..n}

(***************************************************************************)
(* src/unnamed/part_001 : the current server.                              *)
(***************************************************************************)
isAdminUser(u) ==
    IF ADMIN_EMAIL # None
    THEN Role(u) = "teacher" /\ Email(u) = ADMIN_EMAIL
    ELSE Role(u) = "teacher"

NewCourse(u, name, code) ==
    [id |-> Len(courses) + 1, name |-> name, code |-> code, description |-> "",
     teacherId |-> u, students |-> <<>>, materials |-> <<>>]

\* no code is ever found taken
CodeNeverTaken(code) == FALSE

\* Course.findOne({ code }) finds a course
CodeTaken(code) == \E i \in 1..Len(courses) : courses[i].code = code

\* POST /api/courses, with at most cap courses created
CreateCourseUpTo(cap, u, name, code) ==
    /\ UNCHANGED <<assignments, cloud, nextUrl, now>>
    /\ IF Role(u) # "teacher" \/ ~isAdminUser(u)
       THEN /\ res' = Response("createCourse", u, 0, None, 403, None)
            /\ UNCHANGED courses
       ELSE IF name = "" \/ code = 0
       THEN /\ res' = Response("createCourse", u, 0, None, 400, None)
            /\ UNCHANGED courses
       ELSE IF CodeTaken(code)
       THEN /\ res' = Response("createCourse", u, 0, None, 400, None)
            /\ UNCHANGED courses
       ELSE /\ Len(courses) < cap
            /\ courses' = Append(courses, NewCourse(u, name, code))
            /\ res' = Response("createCourse", u, Len(courses) + 1, None, 200,
                               NewCourse(u, name, code))

\* POST /api/courses
CreateCourse(u, name, code) == CreateCourseUpTo(MaxCourses, u, name, code)

\* every join pushes the student id
JoinedAlwaysPush(i, u) == [courses EXCEPT ![i].students = Append(@, u)]

\* the Course collection after student u joined the i-th course:
\* if (!course.students.includes(id)) { course.students.push(id); save }
Joined(i, u) ==
    IF ~Includes(courses[i].students, u)
    THEN [courses EXCEPT ![i].students = Append(@, u)]
    ELSE courses

\* POST /api/courses/:courseId/join
JoinCourse(u, cid) ==
    /\ UNCHANGED <<assignments, cloud, nextUrl, now>>
    /\ IF Role(u) # "student"
       THEN /\ res' = Response("join", u, cid, None, 403, None)
            /\ UNCHANGED courses
       ELSE IF FindCourse(cid) = 0
       THEN /\ res' = Response("join", u, cid, None, 404, None)
            /\ UNCHANGED courses
       ELSE LET i == FindCourse(cid)
            IN /\ courses' = Joined(i, u)
               /\ res' = Response("join", u, cid, None, 200, Joined(i, u)[i])

NewAssignment(u, courseId, title, dueDate, maxMarksNum) ==
    [id |-> Len(assignments) + 1, courseId |-> courseId, title |-> title,
     description |-> "",
     dueDate |-> IF dueDate # None THEN dueDate[1] ELSE now,
     maxMarks |-> maxMarksNum, createdBy |-> u,
     submissions |-> <<>>]

\* the input checks of POST /api/assignments: TRUE when the request is rejected
\* with 400 (courseId 0 stands for a missing courseId)
InvalidAssignmentInput(courseId, title, maxMarks) ==
    \/ courseId = 0 \/ title = "" \/ maxMarks = Undef
    \/ ToNumber(maxMarks) = NaN
    \/ ToNumber(maxMarks)[2] <= 0

\* only a missing course is refused
CourseMissing(u, courseId) == FindCourse(courseId) = 0

\* the ownership check of POST /api/assignments: TRUE when the request is
\* rejected with 403
NotCourseTeacher(u, courseId) ==
    \/ FindCourse(courseId) = 0
    \/ courses[FindCourse(courseId)].teacherId # u

\* POST /api/assignments
CreateAssignment(u, courseId, title, dueDate, maxMarks) ==
    /\ UNCHANGED <<courses, cloud, nextUrl, now>>
    /\ IF Role(u) # "teacher"
       THEN /\ res' = Response("createAssignment", u, courseId, None, 403, None)
            /\ UNCHANGED assignments
       ELSE IF InvalidAssignmentInput(courseId, title, maxMarks)
       THEN /\ res' = Response("createAssignment", u, courseId, None, 400, None)
            /\ UNCHANGED assignments
       ELSE IF NotCourseTeacher(u, courseId)
       THEN /\ res' = Response("createAssignment", u, courseId, None, 403, None)
            /\ UNCHANGED assignments
       ELSE LET a == NewAssignment(u, courseId, title, dueDate,
                                   ToNumber(maxMarks)[2])
            IN /\ Len(assignments) < MaxAssignments
               /\ assignments' = Append(assignments, a)
               /\ res' = Response("createAssignment", u, courseId, None, 200, a)

\* every upload starts the submission afresh, ungraded
FreshRecord(a, u, uploaded) ==
    [studentId |-> u, files |-> uploaded, submittedAt |-> now,
     marks |-> None, feedback |-> None, isLate |-> now > a.dueDate]

\* a later upload clears the late flag
ResubmittedOnTime(a, u, uploaded) ==
    LET k == FindSubmission(a, u)
    IN IF k = 0
       THEN [studentId |-> u, files |-> uploaded, submittedAt |-> now,
             marks |-> None, feedback |-> None, isLate |-> now > a.dueDate]
       ELSE [a.submissions[k] EXCEPT !.files = @ \o uploaded,
                                     !.submittedAt = now,
                                     !.isLate = FALSE]

\* a later upload clears the grade
ResubmittedUngraded(a, u, uploaded) ==
    LET k == FindSubmission(a, u)
    IN [studentId |-> u,
        files |-> IF k = 0 THEN uploaded ELSE a.submissions[k].files \o uploaded,
        submittedAt |-> now, marks |-> None, feedback |-> None,
        isLate |-> now > a.dueDate]

\* the student's submission after a successful upload: created on the first
\* upload, extended on a later one (index 0: no submission yet)
SubmittedRecord(a, u, uploaded) ==
    LET k == FindSubmission(a, u)
        isLate == now > a.dueDate
    IN IF k = 0
       THEN [studentId |-> u, files |-> uploaded, submittedAt |-> now,
             marks |-> None, feedback |-> None, isLate |-> isLate]
       ELSE [a.submissions[k] EXCEPT !.files = @ \o uploaded,
                                     !.submittedAt = now,
                                     !.isLate = isLate]

\* the upload replaces the submission list by the uploader's record
SubmittedAlone(a, u, uploaded) == <<SubmittedRecord(a, u, uploaded)>>

\* the assignment's submission list after that upload
SubmittedList(a, u, uploaded) ==
    LET k == FindSubmission(a, u)
    IN IF k = 0
       THEN Append(a.submissions, SubmittedRecord(a, u, uploaded))
       ELSE [a.submissions EXCEPT ![k] = SubmittedRecord(a, u, uploaded)]

\* the enrollment check of POST /api/assignments/:id/submit: TRUE when the
\* request is rejected with 403
NotEnrolled(u, a) ==
    \/ FindCourse(a.courseId) = 0
    \/ ~Includes(courses[FindCourse(a.courseId)].students, u)

\* POST /api/assignments/:id/submit.  failAt = 0: every transfer to the remote
\* store succeeds; failAt = k: the k-th transfer throws.
SubmitFiles(u, aid, files, failAt) ==
    /\ UNCHANGED <<courses, now>>
    /\ IF Role(u) # "student"
       THEN /\ res' = Response("submit", u, aid, None, 403, None)
            /\ UNCHANGED <<assignments, cloud, nextUrl>>
       ELSE IF FindAssignment(aid) = 0
       THEN /\ res' = Response("submit", u, aid, None, 404, None)
            /\ UNCHANGED <<assignments, cloud, nextUrl>>
       ELSE IF NotEnrolled(u, assignments[FindAssignment(aid)])
       THEN /\ res' = Response("submit", u, aid, None, 403, None)
            /\ UNCHANGED <<assignments, cloud, nextUrl>>
       ELSE IF failAt # 0
       THEN /\ nextUrl + failAt - 2 <= MaxUploads
            /\ cloud' = CloudAfter(failAt - 1)
            /\ nextUrl' = nextUrl + failAt - 1
            /\ res' = Response("submit", u, aid, None, 500, None)
            /\ UNCHANGED assignments
       ELSE LET i == FindAssignment(aid)
                uploaded == Uploaded(files, Len(files))
            IN /\ nextUrl + Len(files) - 1 <= MaxUploads
               /\ cloud' = CloudAfter(Len(files))
               /\ nextUrl' = nextUrl + Len(files)
               /\ assignments' =
                     [assignments EXCEPT ![i].submissions =
                         SubmittedList(assignments[i], u, uploaded)]
               /\ res' = Response("submit", u, aid, None, 200,
                             SubmittedRecord(assignments[i], u, uploaded))

\* s.isLate || false
LateFlag(s) == IF "isLate" \in DOMAIN s THEN s.isLate ELSE FALSE

\* one entry of the teacher's view of the submissions
SubmissionView(s) ==
    [studentId |-> s.studentId, studentName |-> UserName(s.studentId),
     rollNumber |-> RollNumber(s.studentId), files |-> s.files,
     submittedAt |-> s.submittedAt, marks |-> s.marks,
     feedback |-> s.feedback, isLate |-> LateFlag(s)]

\* the owning teacher's view of an assignment's submissions
TeacherView(a) ==
    [k \in 1..Len(a.submissions) |-> SubmissionView(a.submissions[k])]

\* the enrolled student's view: sub ? [sub] : []
StudentView(a, u) ==
    IF FindSubmission(a, u) = 0 THEN <<>>
    ELSE <<a.submissions[FindSubmission(a, u)]>>

\* GET /api/assignments/:id/submissions
ListSubmissions(u, aid) ==
    /\ UNCHANGED <<courses, assignments, cloud, nextUrl, now>>
    /\ IF FindAssignment(aid) = 0 \/
          FindCourse(assignments[FindAssignment(aid)].courseId) = 0
       THEN res' = Response("list", u, aid, None, 404, None)
       ELSE LET a == assignments[FindAssignment(aid)]
                course == courses[FindCourse(a.courseId)]
            IN IF Role(u) = "teacher"
               THEN IF course.teacherId # u
                    THEN res' = Response("list", u, aid, None, 403, None)
                    ELSE res' = Response("list", u, aid, None, 200, TeacherView(a))
               ELSE IF ~Includes(course.students, u)
                    THEN res' = Response("list", u, aid, None, 403, None)
                    ELSE res' = Response("list", u, aid, None, 200, StudentView(a, u))

\* only the marks are stored
MarksOnly(s, marks, feedback) == [s EXCEPT !.marks = marks]

\* the graded submission: sub.marks = marks; sub.feedback = feedback || null
GradedRecord(s, marks, feedback) ==
    [s EXCEPT !.marks = marks,
              !.feedback = IF feedback = None \/ feedback = Some("")
                           THEN None ELSE feedback]

\* POST /api/assignments/:id/grade
Grade(u, aid, studentId, marks, feedback) ==
    /\ UNCHANGED <<courses, cloud, nextUrl, now>>
    /\ IF Role(u) # "teacher"
       THEN /\ res' = Response("grade", u, aid, Some(studentId), 403, None)
            /\ UNCHANGED assignments
       ELSE IF FindAssignment(aid) = 0
       THEN /\ res' = Response("grade", u, aid, Some(studentId), 404, None)
            /\ UNCHANGED assignments
       ELSE IF NotCourseTeacher(u, assignments[FindAssignment(aid)].courseId)
       THEN /\ res' = Response("grade", u, aid, Some(studentId), 403, None)
            /\ UNCHANGED assignments
       ELSE IF FindSubmission(assignments[FindAssignment(aid)], studentId) = 0
       THEN /\ res' = Response("grade", u, aid, Some(studentId), 404, None)
            /\ UNCHANGED assignments
       ELSE LET i == FindAssignment(aid)
                k == FindSubmission(assignments[i], studentId)
                g == GradedRecord(assignments[i].submissions[k], marks, feedback)
            IN /\ assignments' = [assignments EXCEPT ![i].submissions[k] = g]
               /\ res' = Response("grade", u, aid, Some(studentId), 200, g)

\* the file is dropped and the grade is reset
WithoutFileUngraded(sub, fileUrl) ==
    [sub EXCEPT !.files = SelectSeq(@, LAMBDA f : f.url # fileUrl),
                !.marks = None, !.feedback = None]

\* sub.files = sub.files.filter((f) => f.url !== fileUrl)
WithoutFile(sub, fileUrl) ==
    [sub EXCEPT !.files = SelectSeq(@, LAMBDA f : f.url # fileUrl)]

\* DELETE /api/assignments/:id/files.  destroyOk: whether the remote store
\* deletes the object (a failure is caught and logged).
DeleteFile(u, aid, fileUrl, destroyOk) ==
    /\ UNCHANGED <<courses, nextUrl, now>>
    /\ IF FindAssignment(aid) = 0 \/
          FindSubmission(assignments[FindAssignment(aid)], u) = 0
       THEN /\ res' = Response("deleteFile", u, aid, None, 404, None)
            /\ UNCHANGED <<assignments, cloud>>
       ELSE LET i == FindAssignment(aid)
                k == FindSubmission(assignments[i], u)
                sub == assignments[i].submissions[k]
                found == \E j \in 1..Len(sub.files) : sub.files[j].url = fileUrl
            IN /\ assignments' =
                     [assignments EXCEPT ![i].submissions[k] =
                         WithoutFile(@, fileUrl)]
               /\ cloud' = IF found /\ destroyOk THEN cloud \ {fileUrl} ELSE cloud
               /\ res' = Response("deleteFile", u, aid, None, 200, None)

\* every submission counts, graded or not
CountAll(subs) == Len(subs)

RECURSIVE CountUngraded(_)
\* the number of submissions of a submission list with marks null / undefined
CountUngraded(subs) ==
    IF subs = <<>> THEN 0
    ELSE (IF Head(subs).marks = None THEN 1 ELSE 0) + CountUngraded(Tail(subs))

RECURSIVE ToGradeLength(_, _)
\* toGrade.length over the assignments whose course is in courseIds
ToGradeLength(as, courseIds) ==
    IF as = <<>> THEN 0
    ELSE (IF Head(as).courseId \in courseIds
          THEN CountUngraded(Head(as).submissions) ELSE 0)
         + ToGradeLength(Tail(as), courseIds)

\* toGrade.length of teacher u: over the assignments of the courses u teaches
ToGrade(u) ==
    ToGradeLength(assignments,
                  {courses[i].id : i \in {j \in 1..Len(courses) :
                                             courses[j].teacherId = u}})

\* GET /api/dashboard/summary
DashboardSummary(u) ==
    /\ UNCHANGED <<courses, assignments, cloud, nextUrl, now>>
    /\ IF Role(u) = "student"
       THEN LET myCourses == SelectSeq(courses, LAMBDA c : Includes(c.students, u))
                courseIds == {myCourses[i].id : i \in 1..Len(myCourses)}
                myAssignments == SelectSeq(assignments,
                                           LAMBDA a : a.courseId \in courseIds)
                pending == SelectSeq(myAssignments,
                              LAMBDA a : FindSubmission(a, u) = 0 /\ a.dueDate >= now)
            IN res' = Response("summary", u, 0, None, 200,
                         [myCoursesCount |-> Len(myCourses),
                          pendingAssignmentsCount |-> Len(pending),
                          pendingAssignments |-> pending])
       ELSE LET myCourses == SelectSeq(courses, LAMBDA c : c.teacherId = u)
                courseIds == {myCourses[i].id : i \in 1..Len(myCourses)}
                myAssignments == SelectSeq(assignments,
                                           LAMBDA a : a.courseId \in courseIds)
            IN res' = Response("summary", u, 0, None, 200,
                         [myCoursesCount |-> Len(myCourses),
                          assignmentsCount |-> Len(myAssignments),
                          submissionsToGradeCount |-> ToGrade(u)])

\* the clock advances between requests
Tick ==
    /\ now < MaxTime
    /\ now' = now + 1
    /\ UNCHANGED <<courses, assignments, cloud, nextUrl, res>>

\* no response is outstanding
NoResponse == Response("none", "", 0, None, 0, None)

\* the response reaches the client
Deliver ==
    /\ res # NoResponse
    /\ res' = NoResponse
    /\ UNCHANGED <<courses, assignments, cloud, nextUrl, now>>

\* the slots of the requests handled concurrently
Slots == 1..MaxRequests

\* a slot without a request: pc is the handler's position, doc the document
\* its findOne returned, stale whether the stored document's __v was
\* incremented since, status the response sent
IdleRequest ==
    [pc |-> "idle", route |-> "", user |-> "", doc |-> None, files |-> <<>>,
     uploaded |-> <<>>, stale |-> FALSE, status |-> 0]

NoRequests == [p \in Slots |-> IdleRequest]

Init ==
    /\ courses = <<>>
    /\ assignments = <<>>
    /\ cloud = {}
    /\ nextUrl = 1
    /\ now = 0
    /\ res = NoResponse
    /\ users = <<>>
    /\ messages = <<>>
    /\ inflight = NoRequests
    /\ nextToken = 1

\* a request is handled, from its arrival to its response, when no other is
Idle == res = NoResponse

\* the routes of the assignment lifecycle write neither accounts nor messages
Lifecycle == Idle /\ UNCHANGED <<users, messages, inflight, nextToken>>

Next ==
    \/ \E u \in Users, r \in CourseRequests :
          Lifecycle /\ CreateCourse(u, r.name, r.code)
    \/ \E u \in Users, cid \in 1..MaxCourses : Lifecycle /\ JoinCourse(u, cid)
    \/ \E u \in Users, r \in AssignmentRequests :
          Lifecycle /\ CreateAssignment(u, r.courseId, r.title, r.dueDate, r.maxMarks)
    \/ \E u \in Users, aid \in 1..MaxAssignments, files \in RequestFiles,
          failAt \in 0..MaxFilesPerRequest :
          Lifecycle /\ failAt <= Len(files) /\ SubmitFiles(u, aid, files, failAt)
    \/ \E u \in Users, aid \in 1..MaxAssignments : Lifecycle /\ ListSubmissions(u, aid)
    \/ \E u \in Users, aid \in 1..MaxAssignments, sid \in Students,
          marks \in MarksInputs, fb \in FeedbackInputs :
          Lifecycle /\ Grade(u, aid, sid, marks, fb)
    \/ \E u \in Users, aid \in 1..MaxAssignments, url \in 1..MaxUploads,
          ok \in BOOLEAN : Lifecycle /\ DeleteFile(u, aid, url, ok)
    \/ \E u \in Users : Lifecycle /\ DashboardSummary(u)
    \/ Lifecycle /\ Tick
    \/ Deliver /\ UNCHANGED <<users, messages, inflight, nextToken>>

Spec == Init /\ [][Next]_vars

(***************************************************************************)
(* src/Backend/server.js, lines 1-290 : the first copy of the server.  It  *)
(* has the signup, login, assignment, submit and delete-file routes and no *)
(* route that writes the Course collection, which is whatever the shared   *)
(* database holds when it starts.                                          *)
(***************************************************************************)
MaxSubmissions == 3

\* POST /api/assignments
CreateAssignmentV1(u, courseId, title, dueDate, maxMarks) ==
    CreateAssignment(u, courseId, title, dueDate, maxMarks)

\* the submission pushed by an upload (marks, feedback are left unset)
PushedRecordV1(a, u, uploaded) ==
    [studentId |-> u, files |-> uploaded, submittedAt |-> now,
     marks |-> None, feedback |-> None, isLate |-> now > a.dueDate]

\* the assignment's submission list after an upload
SubmittedListV1(a, u, uploaded) ==
    Append(a.submissions, PushedRecordV1(a, u, uploaded))

\* POST /api/assignments/:id/submit.  The transfers are not guarded: when one
\* throws (failAt # 0) the request gets no response (status 0).
SubmitFilesV1(u, aid, files, failAt) ==
    /\ UNCHANGED <<courses, now>>
    /\ IF Role(u) # "student"
       THEN /\ res' = Response("submit", u, aid, None, 403, None)
            /\ UNCHANGED <<assignments, cloud, nextUrl>>
       ELSE IF FindAssignment(aid) = 0
       THEN /\ res' = Response("submit", u, aid, None, 404, None)
            /\ UNCHANGED <<assignments, cloud, nextUrl>>
       ELSE IF failAt # 0
       THEN /\ nextUrl + failAt - 2 <= MaxUploads
            /\ cloud' = CloudAfter(failAt - 1)
            /\ nextUrl' = nextUrl + failAt - 1
            /\ res' = Response("submit", u, aid, None, 0, None)
            /\ UNCHANGED assignments
       ELSE LET i == FindAssignment(aid)
                uploaded == Uploaded(files, Len(files))
            IN /\ nextUrl + Len(files) - 1 <= MaxUploads
               /\ Len(assignments[i].submissions) < MaxSubmissions
               /\ cloud' = CloudAfter(Len(files))
               /\ nextUrl' = nextUrl + Len(files)
               /\ assignments' =
                     [assignments EXCEPT ![i].submissions =
                         SubmittedListV1(assignments[i], u, uploaded)]
               /\ res' = Response("submit", u, aid, None, 200, None)

\* DELETE /api/assignments/:id/files.  The remote deletion is not guarded and
\* runs before the save: when it throws (destroyOk false) nothing is saved and
\* the request gets no response (status 0).
DeleteFileV1(u, aid, fileUrl, destroyOk) ==
    /\ UNCHANGED <<courses, nextUrl, now>>
    /\ IF FindAssignment(aid) = 0 \/
          FindSubmission(assignments[FindAssignment(aid)], u) = 0
       THEN /\ res' = Response("deleteFile", u, aid, None, 404, None)
            /\ UNCHANGED <<assignments, cloud>>
       ELSE IF ~destroyOk
       THEN /\ res' = Response("deleteFile", u, aid, None, 0, None)
            /\ UNCHANGED <<assignments, cloud>>
       ELSE LET i == FindAssignment(aid)
                k == FindSubmission(assignments[i], u)
            IN /\ assignments' =
                     [assignments EXCEPT ![i].submissions[k].files =
                         SelectSeq(@, LAMBDA f : f.url # fileUrl)]
               /\ cloud' = cloud \ {fileUrl}
               /\ res' = Response("deleteFile", u, aid, None, 200, None)

\* the student lists without a repeated id
Enrollments == {<<>>} \cup {<<s>> : s \in Students}
                 \cup {<<s, t>> : <<s, t>> \in {p \in Students \X Students : p[1] # p[2]}}

\* the Course collections the shared database can hold: the courses the
\* complete server creates, each with the students who joined it
SeededCourses ==
    {[i \in 1..MaxCourses |->
        [id |-> i, name |-> "Algorithms", code |-> i, description |-> "",
         teacherId |-> t[i], students |-> e[i], materials |-> <<>>]] :
        t \in [1..MaxCourses -> Teachers], e \in [1..MaxCourses -> Enrollments]}

InitV1 ==
    /\ courses \in SeededCourses
    /\ assignments = <<>>
    /\ cloud = {}
    /\ nextUrl = 1
    /\ now = 0
    /\ res = NoResponse
    /\ users = <<>>
    /\ messages = <<>>
    /\ inflight = NoRequests
    /\ nextToken = 1

NextV1 ==
    \/ \E u \in Users, r \in AssignmentRequests :
          Lifecycle /\ CreateAssignmentV1(u, r.courseId, r.title, r.dueDate, r.maxMarks)
    \/ \E u \in Users, aid \in 1..MaxAssignments, files \in RequestFiles,
          failAt \in 0..MaxFilesPerRequest :
          Lifecycle /\ failAt <= Len(files) /\ SubmitFilesV1(u, aid, files, failAt)
    \/ \E u \in Users, aid \in 1..MaxAssignments, url \in 1..MaxUploads,
          ok \in BOOLEAN : Lifecycle /\ DeleteFileV1(u, aid, url, ok)
    \/ Lifecycle /\ Tick
    \/ Deliver /\ UNCHANGED <<users, messages, inflight, nextToken>>

SpecV1 == InitV1 /\ [][NextV1]_vars

(***************************************************************************)
(* src/Backend/server.js, lines 517-1428 : the third copy of the server,   *)
(* an earlier complete one.  Its submissions carry no late flag and its    *)
(* submission list is for teachers only.                                   *)
(***************************************************************************)
\* POST /api/courses
CreateCourseV3(u, name, code) ==
    /\ UNCHANGED <<assignments, cloud, nextUrl, now>>
    /\ IF Role(u) # "teacher"
       THEN /\ res' = Response("createCourse", u, 0, None, 403, None)
            /\ UNCHANGED courses
       ELSE IF name = "" \/ code = 0
       THEN /\ res' = Response("createCourse", u, 0, None, 400, None)
            /\ UNCHANGED courses
       ELSE IF \E i \in 1..Len(courses) : courses[i].code = code
       THEN /\ res' = Response("createCourse", u, 0, None, 400, None)
            /\ UNCHANGED courses
       ELSE /\ Len(courses) < MaxCourses
            /\ courses' = Append(courses, NewCourse(u, name, code))
            /\ res' = Response("createCourse", u, Len(courses) + 1, None, 200,
                               NewCourse(u, name, code))

\* POST /api/courses/:courseId/join
JoinCourseV3(u, cid) == JoinCourse(u, cid)

\* the input check of POST /api/assignments: TRUE when the request is
\* rejected with 400
MissingFieldsV3(courseId, title, dueDate, maxMarks) ==
    courseId = 0 \/ title = "" \/ dueDate = None \/ Falsy(maxMarks)

\* the stored document: dueDate and maxMarks are stored as sent (the schema
\* casts maxMarks to a number)
NewAssignmentV3(u, courseId, title, dueDate, maxMarks) ==
    [id |-> Len(assignments) + 1, courseId |-> courseId, title |-> title,
     description |-> "", dueDate |-> dueDate[1],
     maxMarks |-> ToNumber(maxMarks)[2], createdBy |-> u,
     submissions |-> <<>>]

\* POST /api/assignments
CreateAssignmentV3(u, courseId, title, dueDate, maxMarks) ==
    /\ UNCHANGED <<courses, cloud, nextUrl, now>>
    /\ IF Role(u) # "teacher"
       THEN /\ res' = Response("createAssignment", u, courseId, None, 403, None)
            /\ UNCHANGED assignments
       ELSE IF MissingFieldsV3(courseId, title, dueDate, maxMarks)
       THEN /\ res' = Response("createAssignment", u, courseId, None, 400, None)
            /\ UNCHANGED assignments
       ELSE IF FindCourse(courseId) = 0
       THEN /\ res' = Response("createAssignment", u, courseId, None, 404, None)
            /\ UNCHANGED assignments
       ELSE IF courses[FindCourse(courseId)].teacherId # u
       THEN /\ res' = Response("createAssignment", u, courseId, None, 403, None)
            /\ UNCHANGED assignments
       ELSE LET a == NewAssignmentV3(u, courseId, title, dueDate, maxMarks)
            IN /\ Len(assignments) < MaxAssignments
               /\ assignments' = Append(assignments, a)
               /\ res' = Response("createAssignment", u, courseId, None, 200, a)

\* the student's submission after a successful upload (no late flag)
SubmittedRecordV3(a, u, uploaded) ==
    LET k == FindSubmission(a, u)
    IN IF k = 0
       THEN [studentId |-> u, files |-> uploaded, submittedAt |-> now,
             marks |-> None, feedback |-> None]
       ELSE [a.submissions[k] EXCEPT !.files = @ \o uploaded,
                                     !.submittedAt = now]

SubmittedListV3(a, u, uploaded) ==
    LET k == FindSubmission(a, u)
    IN IF k = 0
       THEN Append(a.submissions, SubmittedRecordV3(a, u, uploaded))
       ELSE [a.submissions EXCEPT ![k] = SubmittedRecordV3(a, u, uploaded)]

\* POST /api/assignments/:assignmentId/submit.  uploadErr: the upload
\* middleware rejects the request (file type, size or count).
SubmitFilesV3(u, aid, files, failAt, uploadErr) ==
    /\ UNCHANGED <<courses, now>>
    /\ IF Role(u) # "student"
       THEN /\ res' = Response("submit", u, aid, None, 403, None)
            /\ UNCHANGED <<assignments, cloud, nextUrl>>
       ELSE IF uploadErr
       THEN /\ res' = Response("submit", u, aid, None, 400, None)
            /\ UNCHANGED <<assignments, cloud, nextUrl>>
       ELSE IF FindAssignment(aid) = 0
       THEN /\ res' = Response("submit", u, aid, None, 404, None)
            /\ UNCHANGED <<assignments, cloud, nextUrl>>
       ELSE IF NotEnrolled(u, assignments[FindAssignment(aid)])
       THEN /\ res' = Response("submit", u, aid, None, 403, None)
            /\ UNCHANGED <<assignments, cloud, nextUrl>>
       ELSE IF failAt # 0
       THEN /\ nextUrl + failAt - 2 <= MaxUploads
            /\ cloud' = CloudAfter(failAt - 1)
            /\ nextUrl' = nextUrl + failAt - 1
            /\ res' = Response("submit", u, aid, None, 500, None)
            /\ UNCHANGED assignments
       ELSE LET i == FindAssignment(aid)
                uploaded == Uploaded(files, Len(files))
            IN /\ nextUrl + Len(files) - 1 <= MaxUploads
               /\ cloud' = CloudAfter(Len(files))
               /\ nextUrl' = nextUrl + Len(files)
               /\ assignments' =
                     [assignments EXCEPT ![i].submissions =
                         SubmittedListV3(assignments[i], u, uploaded)]
               /\ res' = Response("submit", u, aid, None, 200,
                             SubmittedRecordV3(assignments[i], u, uploaded))

SubmissionViewV3(s) ==
    [studentId |-> s.studentId, studentName |-> UserName(s.studentId),
     rollNumber |-> RollNumber(s.studentId), files |-> s.files,
     submittedAt |-> s.submittedAt, marks |-> s.marks,
     feedback |-> s.feedback]

\* GET /api/assignments/:assignmentId/submissions
ListSubmissionsV3(u, aid) ==
    /\ UNCHANGED <<courses, assignments, cloud, nextUrl, now>>
    /\ IF Role(u) # "teacher"
       THEN res' = Response("list", u, aid, None, 403, None)
       ELSE IF FindAssignment(aid) = 0
       THEN res' = Response("list", u, aid, None, 404, None)
       ELSE IF NotCourseTeacher(u, assignments[FindAssignment(aid)].courseId)
       THEN res' = Response("list", u, aid, None, 403, None)
       ELSE LET a == assignments[FindAssignment(aid)]
            IN res' = Response("list", u, aid, None, 200,
                          [k \in 1..Len(a.submissions) |->
                              SubmissionViewV3(a.submissions[k])])

\* submission.marks = marks; if (feedback) submission.feedback = feedback
GradedRecordV3(s, marks, feedback) ==
    [s EXCEPT !.marks = marks,
              !.feedback = IF feedback = None \/ feedback = Some("")
                           THEN @ ELSE feedback]

\* POST /api/assignments/:assignmentId/grade
GradeV3(u, aid, studentId, marks, feedback) ==
    /\ UNCHANGED <<courses, cloud, nextUrl, now>>
    /\ IF Role(u) # "teacher"
       THEN /\ res' = Response("grade", u, aid, Some(studentId), 403, None)
            /\ UNCHANGED assignments
       ELSE IF FindAssignment(aid) = 0
       THEN /\ res' = Response("grade", u, aid, Some(studentId), 404, None)
            /\ UNCHANGED assignments
       ELSE IF NotCourseTeacher(u, assignments[FindAssignment(aid)].courseId)
       THEN /\ res' = Response("grade", u, aid, Some(studentId), 403, None)
            /\ UNCHANGED assignments
       ELSE IF FindSubmission(assignments[FindAssignment(aid)], studentId) = 0
       THEN /\ res' = Response("grade", u, aid, Some(studentId), 404, None)
            /\ UNCHANGED assignments
       ELSE LET i == FindAssignment(aid)
                k == FindSubmission(assignments[i], studentId)
                g == GradedRecordV3(assignments[i].submissions[k], marks, feedback)
            IN /\ assignments' = [assignments EXCEPT ![i].submissions[k] = g]
               /\ res' = Response("grade", u, aid, Some(studentId), 200, g)

\* the bodies sent to POST /api/assignments of this copy (it stores maxMarks
\* as sent, so only values the schema can cast to a number are sent)
AssignmentRequestsV3 ==
    {r \in AssignmentRequests : r.maxMarks # Str("abc")}
    \cup {[courseId |-> c, title |-> "HW1", dueDate |-> d, maxMarks |-> m] :
            c \in 1..MaxCourses, d \in DueInputs \ {None},
            m \in {Num(0 - 5), Num(0)}}

NextV3 ==
    \/ \E u \in Users, r \in CourseRequests :
          Lifecycle /\ CreateCourseV3(u, r.name, r.code)
    \/ \E u \in Users, cid \in 1..MaxCourses : Lifecycle /\ JoinCourseV3(u, cid)
    \/ \E u \in Users, r \in AssignmentRequestsV3 :
          Lifecycle /\ CreateAssignmentV3(u, r.courseId, r.title, r.dueDate, r.maxMarks)
    \/ \E u \in Users, aid \in 1..MaxAssignments, files \in RequestFiles,
          failAt \in 0..MaxFilesPerRequest, err \in BOOLEAN :
          Lifecycle /\ failAt <= Len(files) /\ SubmitFilesV3(u, aid, files, failAt, err)
    \/ \E u \in Users, aid \in 1..MaxAssignments : Lifecycle /\ ListSubmissionsV3(u, aid)
    \/ \E u \in Users, aid \in 1..MaxAssignments, sid \in Students,
          marks \in MarksInputs, fb \in FeedbackInputs :
          Lifecycle /\ GradeV3(u, aid, sid, marks, fb)
    \/ Lifecycle /\ Tick
    \/ Deliver /\ UNCHANGED <<users, messages, inflight, nextToken>>

SpecV3 == Init /\ [][NextV3]_vars

(***************************************************************************)
(* Accounts: POST /api/signup of src/unnamed/part_001 (SpecSignup) and of  *)
(* the first copy in src/Backend/server.js (SpecSignupV1).                 *)
(***************************************************************************)
MaxUsers == 2

RollNumbers == {"r1", "r2"}
Emails == {"e1", "e2"}

\* the bodies sent to POST /api/signup.  role "": no role; name "": no name;
\* password FALSE: no password; details: branch and year (student) or
\* department (teacher) are present
SignupRequests ==
    [role : {"student", "teacher", "admin"}, name : {"Ann"},
     email : {None} \cup {Some(e) : e \in Emails},
     rollNumber : {None} \cup {Some(n) : n \in RollNumbers},
     password : {TRUE}, details : {TRUE}]
    \cup [role : {"", "student"}, name : {"", "Ann"}, email : {Some("e1")},
          rollNumber : {Some("r1")}, password : BOOLEAN, details : BOOLEAN]

\* User.findOne({ role, rollNumber }) / User.findOne({ role, email }) finds one
StudentWithRoll(rollNumber) ==
    \E i \in 1..Len(users) :
        users[i].role = "student" /\ users[i].rollNumber = rollNumber
TeacherWithEmail(email) ==
    \E i \in 1..Len(users) :
        users[i].role = "teacher" /\ users[i].email = email

\* bcrypt.hash(password, 10): the digest is not the password, and
\* bcrypt.compare(password, digest) holds for the digest of that password only
hash(password) == <<"bcrypt", password>>
compare(password, digest) == digest = hash(password)

\* new User({...}): email || null, rollNumber || null; the password sent is
\* "pw0"; the reset fields are unset
NewUser(r) ==
    [id |-> Len(users) + 1, role |-> r.role, name |-> r.name,
     email |-> r.email, rollNumber |-> r.rollNumber,
     branch |-> IF r.role = "student" /\ r.details THEN Some("CSE") ELSE None,
     year |-> IF r.role = "student" /\ r.details THEN Some("1") ELSE None,
     department |-> IF r.role = "teacher" /\ r.details THEN Some("Maths") ELSE None,
     profilePhotoUrl |-> None,
     passwordHash |-> hash(IF r.password THEN "pw0" ELSE ""),
     resetPasswordToken |-> None, resetPasswordExpires |-> None]

\* the status of the rejection of a signup by the current server, 0 when the
\* body is accepted
SignupRejection(r) ==
    IF r.role = "" \/ r.name = "" \/ ~r.password THEN 400
    ELSE IF r.role = "student"
    THEN IF r.rollNumber = None \/ ~r.details THEN 400
         ELSE IF StudentWithRoll(r.rollNumber) THEN 400
         ELSE 0
    ELSE IF r.role = "teacher"
    THEN IF r.email = None \/ ~r.details THEN 400
         ELSE IF ADMIN_EMAIL # None /\ r.email # ADMIN_EMAIL THEN 403
         ELSE IF TeacherWithEmail(r.email) THEN 400
         ELSE 0
    ELSE 400

\* POST /api/signup (src/unnamed/part_001)
Signup(r) ==
    /\ UNCHANGED <<courses, assignments, cloud, nextUrl, now, messages, inflight, nextToken>>
    /\ IF SignupRejection(r) # 0
       THEN /\ res' = Response("signup", "", 0, None, SignupRejection(r), None)
            /\ UNCHANGED users
       ELSE /\ Len(users) < MaxUsers
            /\ users' = Append(users, NewUser(r))
            /\ res' = Response("signup", "", 0, None, 200, NewUser(r))

\* POST /api/signup (src/Backend/server.js, first copy): only role, name and
\* password are looked at
SignupV1(r) ==
    /\ UNCHANGED <<courses, assignments, cloud, nextUrl, now, messages, inflight, nextToken>>
    /\ IF r.role = "" \/ r.name = "" \/ ~r.password
       THEN /\ res' = Response("signup", "", 0, None, 400, None)
            /\ UNCHANGED users
       ELSE /\ Len(users) < MaxUsers
            /\ users' = Append(users, NewUser(r))
            /\ res' = Response("signup", "", 0, None, 200,
                               [id |-> Len(users) + 1, role |-> r.role,
                                name |-> r.name])

\* the response reaches the client; the collections stay as they are
Delivered ==
    /\ Deliver
    /\ UNCHANGED <<users, messages, inflight, nextToken>>

NextSignup ==
    \/ \E r \in SignupRequests : Idle /\ Signup(r)
    \/ Delivered

SpecSignup == Init /\ [][NextSignup]_vars

NextSignupV1 ==
    \/ \E r \in SignupRequests : Idle /\ SignupV1(r)
    \/ Delivered

SpecSignupV1 == Init /\ [][NextSignupV1]_vars

(***************************************************************************)
(* Properties.                                                             *)
(***************************************************************************)
\* teacher u owns course cid
Owns(u, cid) ==
    \E i \in 1..Len(courses) : courses[i].id = cid /\ courses[i].teacherId = u

\* student u is in the enrollment set of course cid
Enrolled(u, cid) ==
    \E i \in 1..Len(courses) :
        courses[i].id = cid /\ \E j \in 1..Len(courses[i].students) :
                                   courses[i].students[j] = u

NoRepeats(s) == \A j, k \in 1..Len(s) : s[j] = s[k] => j = k

\* the positions of student u's records in a submission list
RecordsOf(subs, u) == {k \in 1..Len(subs) : subs[k].studentId = u}

OneRecordPerStudent ==
    \A i \in 1..Len(assignments) :
        \A u \in Students : Cardinality(RecordsOf(assignments[i].submissions, u)) <= 1

\* C1: after any sequence of submits every assignment holds at most one
\* submission record per student; a successful upload by a student who already
\* has a record adds no record, keeps that record's files as a prefix of its
\* new file list and sets its timestamp to the time of the upload.
C1_OneRecordPerStudent ==
    [][/\ OneRecordPerStudent'
       /\ (res'.op = "submit" /\ res'.status = 200) =>
            LET i == FindAssignment(res'.target)
                old == assignments[i].submissions
                new == assignments'[i].submissions
            IN \A k \in RecordsOf(old, res'.user) :
                  /\ Len(new) = Len(old)
                  /\ new[k].studentId = res'.user
                  /\ SubSeq(new[k].files, 1, Len(old[k].files)) = old[k].files
                  /\ new[k].submittedAt = now]_vars

\* C2: a submit by a student who is not in the enrollment set of the
\* assignment's course is answered 403 Forbidden and leaves every submission
\* list as it was.
C2_NotEnrolledForbidden ==
    [][(/\ res'.op = "submit"
        /\ Role(res'.user) = "student"
        /\ FindAssignment(res'.target) # 0
        /\ ~Enrolled(res'.user, assignments[FindAssignment(res'.target)].courseId))
       => (res'.status = 403 /\ assignments' = assignments)]_vars

CreatedByOwner ==
    \A i \in 1..Len(assignments) :
        Owns(assignments[i].createdBy, assignments[i].courseId)

C4_GradeOnlyByOwner ==
    [][/\ \A i \in 1..Len(assignments) :
            \A k \in 1..Len(assignments[i].submissions) :
                LET old == assignments[i].submissions[k]
                    new == assignments'[i].submissions[k]
                IN (old.marks # new.marks \/ old.feedback # new.feedback)
                   => /\ res'.op = "grade" /\ res'.status = 200
                      /\ Owns(res'.user, assignments[i].courseId)
                      /\ res'.target = assignments[i].id
                      /\ res'.student = Some(old.studentId)
       /\ \A i \in 1..Len(assignments') :
            \A k \in 1..Len(assignments'[i].submissions) :
                (i > Len(assignments) \/ k > Len(assignments[i].submissions))
                => /\ assignments'[i].submissions[k].marks = None
                   /\ assignments'[i].submissions[k].feedback = None
       /\ (res'.op = "grade" /\ FindAssignment(res'.target) # 0) =>
            LET a == assignments[FindAssignment(res'.target)]
            IN IF ~Owns(res'.user, a.courseId)
               THEN res'.status = 403 /\ assignments' = assignments
               ELSE IF RecordsOf(a.submissions, res'.student[1]) = {}
               THEN res'.status = 404 /\ assignments' = assignments
               ELSE res'.status = 200]_vars

\* a graded submission is stored and a grade by a teacher who does not own the
\* course has just been refused
C4_Witness ==
    /\ res.op = "grade" /\ res.status = 403 /\ res.user \in Teachers
    /\ \E i \in 1..Len(assignments) :
          /\ assignments[i].id = res.target
          /\ ~Owns(res.user, assignments[i].courseId)
          /\ \E k \in 1..Len(assignments[i].submissions) :
                /\ assignments[i].submissions[k].marks # None
                /\ assignments[i].submissions[k].feedback # None

\* C5: a list-submissions request on an existing assignment gives the owning
\* teacher one entry per stored submission, in order; gives a student of the
\* course status 200 with exactly the stored submissions whose studentId is
\* the caller's (none: the empty list); every other caller (a teacher who
\* does not own the course, a student who is not enrolled) is answered 403.
C5_ListOwnOnly ==
    [][(res'.op = "list" /\ FindAssignment(res'.target) # 0) =>
         LET a == assignments[FindAssignment(res'.target)]
             u == res'.user
         IN IF Owns(u, a.courseId)
            THEN /\ res'.status = 200
                 /\ Len(res'.body) = Len(a.submissions)
                 /\ \A k \in 1..Len(a.submissions) :
                       res'.body[k].studentId = a.submissions[k].studentId
            ELSE IF Role(u) = "student" /\ Enrolled(u, a.courseId)
            THEN /\ res'.status = 200
                 /\ Len(res'.body) = Cardinality(RecordsOf(a.submissions, u))
                 /\ \A k \in 1..Len(res'.body) : res'.body[k].studentId = u
            ELSE res'.status = 403]_vars

\* C6: no student id occurs twice in a course's enrollment list, and a join
\* by a student who is already enrolled is answered 200 and leaves the Course
\* collection as it was.
C6_JoinIdempotent ==
    [][/\ \A i \in 1..Len(courses') : NoRepeats(courses'[i].students)
       /\ (/\ res'.op = "join"
           /\ Role(res'.user) = "student"
           /\ Enrolled(res'.user, res'.target))
          => (res'.status = 200 /\ courses' = courses)]_vars

\* a student who has already submitted to an assignment of the course (so was
\* enrolled before) has just joined it again, and is listed once
C6_Witness ==
    /\ res.op = "join" /\ res.status = 200
    /\ \E i \in 1..Len(assignments) :
          /\ assignments[i].courseId = res.target
          /\ RecordsOf(assignments[i].submissions, res.user) # {}
    /\ \E i \in 1..Len(courses) :
          /\ courses[i].id = res.target
          /\ Cardinality({j \in 1..Len(courses[i].students) :
                             courses[i].students[j] = res.user}) = 1

\* C7: a successful grade with marks m and a non-empty feedback text fb leaves
\* exactly one record of that student, holding m and fb; and the owning
\* teacher's listing returns, for every stored submission and in order, an
\* entry with its student, its marks and its feedback.  So the listing that
\* follows the grade returns that student's submission with exactly m and fb.
C7_GradeListRoundTrip ==
    [][/\ (res'.op = "grade" /\ res'.status = 200) =>
            \A m \in MarksInputs, fb \in FeedbackInputs \ {Some("")} :
               Grade(res'.user, res'.target, res'.student[1], m, fb) =>
                  LET new == assignments'[FindAssignment(res'.target)].submissions
                      sid == res'.student[1]
                  IN /\ Cardinality(RecordsOf(new, sid)) = 1
                     /\ \A k \in RecordsOf(new, sid) :
                           new[k].marks = m /\ new[k].feedback = fb
       /\ (res'.op = "list" /\ res'.status = 200 /\ Role(res'.user) = "teacher") =>
            LET subs == assignments[FindAssignment(res'.target)].submissions
            IN /\ Len(res'.body) = Len(subs)
               /\ \A k \in 1..Len(subs) :
                     /\ res'.body[k].studentId = subs[k].studentId
                     /\ res'.body[k].marks = subs[k].marks
                     /\ res'.body[k].feedback = subs[k].feedback]_vars

\* the owning teacher has just listed the submissions and got one graded 5
\* with the feedback "Good job"
C7_Witness ==
    /\ res.op = "list" /\ res.status = 200 /\ res.user \in Teachers
    /\ \E k \in 1..Len(res.body) :
          /\ res.body[k].marks = Some(5)
          /\ res.body[k].feedback = Some("Good job")

\* the submissions with no score over the assignments of the courses u owns
UngradedOwned(u) ==
    UNION {{<<i, k>> : k \in {j \in 1..Len(assignments[i].submissions) :
                                 assignments[i].submissions[j].marks = None}} :
           i \in {j \in 1..Len(assignments) : Owns(u, assignments[j].courseId)}}

\* C8: in every reachable state the dashboard's submissionsToGradeCount of
\* every teacher is the number of submissions with no score over the
\* assignments of the courses the teacher owns, and a summary just returned to
\* a teacher carries that number (0 once all of them are graded).
C8_ToGradeCount ==
    /\ \A u \in Teachers : ToGrade(u) = Cardinality(UngradedOwned(u))
    /\ (res.op = "summary" /\ Role(res.user) = "teacher") =>
          res.body.submissionsToGradeCount = Cardinality(UngradedOwned(res.user))

\* a teacher whose course has two submissions, one graded and one not, has
\* just been told there is one to grade
C8_Witness ==
    /\ res.op = "summary" /\ res.user \in Teachers
    /\ res.body.submissionsToGradeCount = 1
    /\ \E i \in 1..Len(assignments) :
          /\ Owns(res.user, assignments[i].courseId)
          /\ \E j, k \in 1..Len(assignments[i].submissions) :
                /\ assignments[i].submissions[j].marks # None
                /\ assignments[i].submissions[k].marks = None

\* C9: after every successful submit the late flag of the student's
\* submission is (time of the submit > the assignment's due date), on the
\* first upload and on a later one.
C9_LateFlagAfterSubmit ==
    [][(res'.op = "submit" /\ res'.status = 200) =>
         LET i == FindAssignment(res'.target)
             new == assignments'[i].submissions
         IN /\ RecordsOf(new, res'.user) # {}
            /\ \A k \in RecordsOf(new, res'.user) :
                  LateFlag(new[k]) = (now > assignments[i].dueDate)]_vars

\* C10: every persisted assignment has maxMarks > 0: no create-assignment
\* request with maxMarks 0 or negative has persisted one.
C10_MaxMarksPositive ==
    \A i \in 1..Len(assignments) : assignments[i].maxMarks > 0

\* no two students share a roll number, no two teachers share an email
UniqueAccounts ==
    \A i, j \in 1..Len(users) :
        i # j =>
            /\ ~(/\ users[i].role = "student" /\ users[j].role = "student"
                 /\ users[i].rollNumber # None
                 /\ users[i].rollNumber = users[j].rollNumber)
            /\ ~(/\ users[i].role = "teacher" /\ users[j].role = "teacher"
                 /\ users[i].email # None
                 /\ users[i].email = users[j].email)

\* C11: after any sequence of signups no two students share a roll number
\* and no two teachers share an email; a signup that repeats the roll number
\* of an existing student, or the email of an existing teacher, is answered
\* with a Conflict status (400 or 409) and creates no user.
C11_UniqueAccounts ==
    [][/\ UniqueAccounts'
       /\ res'.op = "signup" =>
            \A r \in SignupRequests :
               (/\ Signup(r) \/ SignupV1(r)
                /\ \/ r.role = "student" /\ r.rollNumber # None
                                         /\ StudentWithRoll(r.rollNumber)
                   \/ r.role = "teacher" /\ r.email # None
                                         /\ TeacherWithEmail(r.email))
               => (res'.status \in {400, 409} /\ users' = users)]_vars

(***************************************************************************)
(* Grading with arbitrary marks: one course of teacher t1, one assignment  *)
(* with maxMarks 10, and the marks a teacher may send.                     *)
(***************************************************************************)
\* req.body.marks of POST /api/assignments/:id/grade: stored as sent
GradeMarksInputs == {Some(0 - 1), Some(0), Some(10), Some(11)}

NextGrade ==
    \/ Lifecycle /\ CreateCourse("t1", "Algorithms", 1)
    \/ \E u \in Students : Lifecycle /\ JoinCourse(u, 1)
    \/ Lifecycle /\ CreateAssignment("t1", 1, "HW1", None, Num(10))
    \/ \E u \in Students, files \in RequestFiles :
          Lifecycle /\ SubmitFiles(u, 1, files, 0)
    \/ \E u \in Teachers, sid \in Students, marks \in GradeMarksInputs :
          Lifecycle /\ Grade(u, 1, sid, marks, None)
    \/ Deliver /\ UNCHANGED <<users, messages, inflight, nextToken>>

SpecGrade == Init /\ [][NextGrade]_vars

\* C12: in every reachable state the marks of a submission, when present,
\* are between 0 and the maxMarks of its assignment.
C12_ScoreInRange ==
    \A i \in 1..Len(assignments) :
        \A k \in 1..Len(assignments[i].submissions) :
            LET marks == assignments[i].submissions[k].marks
            IN marks # None =>
                  (0 <= marks[1] /\ marks[1] <= assignments[i].maxMarks)

\* the submission with its file list blanked: every field but the files
BesidesFiles(s) == [s EXCEPT !.files = <<>>]

\* C13: Delete file changes only the file list of the caller's own
\* submission on the named assignment: courses, the assignment's own fields,
\* every other student's submission and the caller's marks, feedback and
\* other fields are unchanged, and the file list only loses entries; a caller
\* with no submission on that assignment (or naming no assignment) gets 404
\* and nothing changes.
C13_DeleteFileFrame ==
    [][res'.op = "deleteFile" =>
         /\ courses' = courses
         /\ Len(assignments') = Len(assignments)
         /\ \A i \in 1..Len(assignments) :
               /\ [assignments'[i] EXCEPT !.submissions = <<>>]
                     = [assignments[i] EXCEPT !.submissions = <<>>]
               /\ Len(assignments'[i].submissions) = Len(assignments[i].submissions)
               /\ \A k \in 1..Len(assignments[i].submissions) :
                     LET old == assignments[i].submissions[k]
                         new == assignments'[i].submissions[k]
                     IN /\ (assignments[i].id # res'.target
                              \/ old.studentId # res'.user) => new = old
                        /\ BesidesFiles(new) = BesidesFiles(old)
                        /\ \A j \in 1..Len(new.files) :
                              \E h \in 1..Len(old.files) : new.files[j] = old.files[h]
         /\ (\/ FindAssignment(res'.target) = 0
             \/ FindSubmission(assignments[FindAssignment(res'.target)],
                               res'.user) = 0)
            => (res'.status = 404 /\ assignments' = assignments /\ cloud' = cloud)
      ]_vars

\* s1 deleted its only file after being graded, while s2's submission stands
C13_Witness ==
    /\ res.op = "deleteFile" /\ res.status = 200 /\ res.user = "s1"
    /\ 1 \notin cloud
    /\ \E i \in 1..Len(assignments) :
          /\ assignments[i].id = res.target
          /\ \E k, h \in 1..Len(assignments[i].submissions) :
                /\ assignments[i].submissions[k].studentId = "s1"
                /\ assignments[i].submissions[k].files = <<>>
                /\ assignments[i].submissions[k].marks # None
                /\ assignments[i].submissions[h].studentId = "s2"
                /\ Len(assignments[i].submissions[h].files) = 1

\* the student's submission on the assignment holds a file with that url
HoldsFile(as, u, aid, fileUrl) ==
    \E i \in 1..Len(as) :
        /\ as[i].id = aid
        /\ \E k \in 1..Len(as[i].submissions) :
              /\ as[i].submissions[k].studentId = u
              /\ \E j \in 1..Len(as[i].submissions[k].files) :
                    as[i].submissions[k].files[j].url = fileUrl

\* C14: when the remote deletion of Delete file fails, the request still
\* succeeds (200), the file reference is removed from the stored submission
\* and the remote object is left behind.
C14_RemoteFailureNotFatal ==
    [][res'.op = "deleteFile" =>
         \A url \in 1..MaxUploads :
            (/\ HoldsFile(assignments, res'.user, res'.target, url)
             /\ \/ DeleteFile(res'.user, res'.target, url, FALSE)
                \/ DeleteFileV1(res'.user, res'.target, url, FALSE))
            => /\ res'.status = 200
               /\ ~HoldsFile(assignments', res'.user, res'.target, url)
               /\ cloud' = cloud
      ]_vars

(***************************************************************************)
(* Multi-file uploads and the multer limits: one course of teacher t1, one *)
(* assignment, requests of up to MaxBatch files, and requests beyond the   *)
(* limits of upload (5 files, 20 MB a file).                               *)
(***************************************************************************)
MaxBatch == 2

\* req.files of a request within the limits
BatchFiles == UNION {[1..n -> FileNames] : n \in 0..MaxBatch}

\* POST /api/assignments/:id/submit with a request beyond the limits.  multer
\* passes its error to the callback, which takes no parameter and goes on with
\* req.files: the entries stored before the limit was hit, kept of them, each
\* with its buffer deleted.  uploadToCloudinary throws on the first of them
\* (file.buffer is undefined) before anything is sent; with none left the
\* handler goes on as for a request without files.
SubmitOverLimit(u, aid, kept) ==
    /\ UNCHANGED <<courses, now, cloud, nextUrl>>
    /\ IF Role(u) # "student"
       THEN /\ res' = Response("submitOverLimit", u, aid, None, 403, None)
            /\ UNCHANGED assignments
       ELSE IF FindAssignment(aid) = 0
       THEN /\ res' = Response("submitOverLimit", u, aid, None, 404, None)
            /\ UNCHANGED assignments
       ELSE IF NotEnrolled(u, assignments[FindAssignment(aid)])
       THEN /\ res' = Response("submitOverLimit", u, aid, None, 403, None)
            /\ UNCHANGED assignments
       ELSE IF kept > 0
       THEN /\ res' = Response("submitOverLimit", u, aid, None, 500, None)
            /\ UNCHANGED assignments
       ELSE LET i == FindAssignment(aid)
            IN /\ assignments' =
                     [assignments EXCEPT ![i].submissions =
                         SubmittedList(assignments[i], u, <<>>)]
               /\ res' = Response("submitOverLimit", u, aid, None, 200,
                             SubmittedRecord(assignments[i], u, <<>>))

NextUpload ==
    \/ Lifecycle /\ CreateCourse("t1", "Algorithms", 1)
    \/ \E u \in Students : Lifecycle /\ JoinCourse(u, 1)
    \/ Lifecycle /\ CreateAssignment("t1", 1, "HW1", None, Num(10))
    \/ \E u \in Users, files \in BatchFiles, failAt \in 0..MaxBatch :
          Lifecycle /\ failAt <= Len(files) /\ SubmitFiles(u, 1, files, failAt)
    \/ \E u \in Users, kept \in 0..MaxBatch : Lifecycle /\ SubmitOverLimit(u, 1, kept)
    \/ Deliver /\ UNCHANGED <<users, messages, inflight, nextToken>>

SpecUpload == Init /\ [][NextUpload]_vars

\* C15: when the k-th transfer of a Submit files request of an enrolled
\* student fails, the request fails with 500, the stored assignments (hence
\* every submission) are unchanged, and the k-1 files already transferred by
\* the request remain in the remote store.
C15_MidUploadFailure ==
    [][res'.op = "submit" =>
         \A files \in BatchFiles, failAt \in 1..MaxBatch :
            (/\ failAt <= Len(files)
             /\ Role(res'.user) = "student"
             /\ FindAssignment(res'.target) # 0
             /\ Enrolled(res'.user, assignments[FindAssignment(res'.target)].courseId)
             /\ SubmitFiles(res'.user, res'.target, files, failAt))
            => /\ res'.status = 500
               /\ assignments' = assignments
               /\ cloud' = cloud \cup (nextUrl .. (nextUrl + failAt - 2))
      ]_vars

\* the second transfer of s1's first request failed: the first file is in the
\* remote store and no submission exists
C15_Witness ==
    /\ res.op = "submit" /\ res.status = 500 /\ res.user = "s1"
    /\ cloud = {1}
    /\ Len(assignments) = 1 /\ assignments[1].submissions = <<>>

\* C16: a request beyond the upload limit is rejected (status 400 or above)
\* before any file is transferred, and creates or modifies no submission.
C16_OverLimitRejected ==
    [][res'.op = "submitOverLimit" =>
         /\ res'.status >= 400
         /\ cloud' = cloud
         /\ assignments' = assignments
      ]_vars

(***************************************************************************)
(* The message board of src/unnamed/part_001.  The callers are the         *)
(* students, the teachers and g1, the account signed up through the first  *)
(* copy's POST /api/signup with a role that is neither student nor teacher *)
(* (the copies share the database and the token secret).                   *)
(***************************************************************************)
MaxMessages == 2

\* req.body.content ("": no content)
Contents == {"", "hi"}

\* the signups that store a role other than student and teacher
GuestSignups ==
    {r \in SignupRequests :
        r.role = "admin" /\ r.email = None /\ r.rollNumber = None}

\* the users a token can name: req.user = jwt.verify(token, JWT_SECRET)
Authenticated ==
    Users \cup {g \in Others :
                   \E i \in 1..Len(users) :
                      users[i].role \notin {"student", "teacher"}}

\* the board holds the new message alone
PostedAlone(msg) == <<msg>>

\* the Message collection after msg.save()
Posted(msg) == Append(messages, msg)

NewMessage(u, cid, content) ==
    [id |-> Len(messages) + 1, courseId |-> cid, userId |-> u,
     content |-> content, createdAt |-> now]

\* POST /api/courses/:courseId/messages
PostMessage(u, cid, content) ==
    /\ UNCHANGED <<courses, assignments, cloud, nextUrl, now, users, inflight, nextToken>>
    /\ IF content = ""
       THEN /\ res' = Response("post", u, cid, None, 400, None)
            /\ UNCHANGED messages
       ELSE IF FindCourse(cid) = 0
       THEN /\ res' = Response("post", u, cid, None, 404, None)
            /\ UNCHANGED messages
       ELSE IF Role(u) = "student"
               /\ ~Includes(courses[FindCourse(cid)].students, u)
       THEN /\ res' = Response("post", u, cid, None, 403, None)
            /\ UNCHANGED messages
       ELSE IF Role(u) = "teacher" /\ courses[FindCourse(cid)].teacherId # u
       THEN /\ res' = Response("post", u, cid, None, 403, None)
            /\ UNCHANGED messages
       ELSE /\ Len(messages) < MaxMessages
            /\ messages' = Posted(NewMessage(u, cid, content))
            /\ res' = Response("post", u, cid, None, 200,
                               NewMessage(u, cid, content))

RECURSIVE SortByCreatedAt(_)
\* .sort({ createdAt: 1 })
SortByCreatedAt(ms) ==
    IF ms = <<>> THEN <<>>
    ELSE LET rest == SortByCreatedAt(Tail(ms))
         IN SelectSeq(rest, LAMBDA m : m.createdAt < Head(ms).createdAt)
            \o <<Head(ms)>>
            \o SelectSeq(rest, LAMBDA m : m.createdAt >= Head(ms).createdAt)

\* { ...m.toObject(), userName, userRole }
MessageView(m) ==
    [id |-> m.id, courseId |-> m.courseId, userId |-> m.userId,
     content |-> m.content, createdAt |-> m.createdAt,
     userName |-> UserName(m.userId), userRole |-> Role(m.userId)]

\* GET /api/courses/:courseId/messages
GetMessages(u, cid) ==
    /\ UNCHANGED <<courses, assignments, cloud, nextUrl, now, users, messages, inflight, nextToken>>
    /\ LET found == SortByCreatedAt(SelectSeq(messages, LAMBDA m : m.courseId = cid))
       IN res' = Response("messages", u, cid, None, 200,
                          [k \in 1..Len(found) |-> MessageView(found[k])])

NextBoard ==
    \/ \E u \in Teachers : Lifecycle /\ CreateCourse(u, "Algorithms", 1)
    \/ \E u \in Students : Lifecycle /\ JoinCourse(u, 1)
    \/ \E r \in GuestSignups : Idle /\ SignupV1(r)
    \/ \E u \in Authenticated, cid \in 1..MaxCourses, content \in Contents :
          Idle /\ PostMessage(u, cid, content)
    \/ \E u \in Authenticated, cid \in 1..MaxCourses : Idle /\ GetMessages(u, cid)
    \/ Lifecycle /\ Tick
    \/ Delivered

SpecBoard == Init /\ [][NextBoard]_vars

\* u is a student enrolled in course cid or the teacher owning it
Member(u, cid) ==
    \/ Role(u) = "student" /\ Enrolled(u, cid)
    \/ Role(u) = "teacher" /\ Owns(u, cid)

\* C17: every message is stored by a caller who is, at that time, a student
\* enrolled in the message's course or the teacher owning it; a Post (with
\* content, to an existing course) by any other authenticated user is
\* answered 403 and appends nothing.
C17_PostByMemberOnly ==
    [][res'.op = "post" =>
         /\ messages' # messages =>
               /\ Len(messages') = Len(messages) + 1
               /\ Member(messages'[Len(messages')].userId,
                         messages'[Len(messages')].courseId)
         /\ \A content \in Contents \ {""} :
               (/\ PostMessage(res'.user, res'.target, content)
                /\ FindCourse(res'.target) # 0
                /\ ~Member(res'.user, res'.target))
               => (res'.status = 403 /\ messages' = messages)
      ]_vars

\* C18: GET /api/courses/:id/messages returns messages only to a caller who
\* is enrolled in the course or owns it.
C18_ReadByMemberOnly ==
    [][(res'.op = "messages" /\ res'.status = 200 /\ res'.body # <<>>)
          => Member(res'.user, res'.target)]_vars

\* C19: the board is append-only: every message of a state is, in every next
\* state, still there with the same course, author, content and timestamp.
C19_AppendOnly ==
    [][\A k \in 1..Len(messages) :
          /\ k <= Len(messages')
          /\ messages'[k] = messages[k]]_vars

\* a second message was stored behind the first, by another author
C19_Witness ==
    /\ res.op = "post" /\ res.status = 200
    /\ Len(messages) = 2
    /\ messages[2] = res.body
    /\ messages[1].userId # messages[2].userId
    /\ messages[1].createdAt < messages[2].createdAt

(***************************************************************************)
(* The course catalog: several courses, created by either teacher and      *)
(* joined by the students.                                                 *)
(***************************************************************************)
MaxCatalog == 2

\* the bodies sent to POST /api/courses (code 0: no code, name "": no name)
CatalogRequests ==
    [name : {"", "Algorithms"}, code : 0..MaxCatalog]

NextCatalog ==
    \/ \E u \in Users, r \in CatalogRequests :
          Lifecycle /\ CreateCourseUpTo(MaxCatalog, u, r.name, r.code)
    \/ \E u \in Students, cid \in 1..MaxCatalog : Lifecycle /\ JoinCourse(u, cid)
    \/ Delivered

SpecCatalog == Init /\ [][NextCatalog]_vars

\* no two courses of the collection share a code
UniqueCodes(cs) ==
    \A i, j \in 1..Len(cs) : i # j => cs[i].code # cs[j].code

\* C20: after any sequence of Create course operations no two courses share
\* a code; a Create whose code already exists persists nothing and, sent by a
\* teacher allowed to create courses, is answered with a Conflict status (400
\* or 409); a successful Create appends one course owned by the caller with
\* an empty enrollment set.
C20_UniqueCourseCodes ==
    [][/\ UniqueCodes(courses')
       /\ res'.op = "createCourse" =>
            /\ \A r \in CatalogRequests :
                  (/\ CreateCourseUpTo(MaxCatalog, res'.user, r.name, r.code)
                   /\ \E i \in 1..Len(courses) : courses[i].code = r.code)
                  => /\ courses' = courses
                     /\ (Role(res'.user) = "teacher" /\ isAdminUser(res'.user))
                           => res'.status \in {400, 409}
            /\ res'.status = 200 =>
                  /\ Len(courses') = Len(courses) + 1
                  /\ SubSeq(courses', 1, Len(courses)) = courses
                  /\ courses'[Len(courses')].teacherId = res'.user
                  /\ courses'[Len(courses')].students = <<>>
      ]_vars

\* t2 asked for the code of the joined course of t1 after creating its own
C20_Witness ==
    /\ res.op = "createCourse" /\ res.status = 400 /\ res.user = "t2"
    /\ Len(courses) = 2
    /\ courses[1].teacherId = "t1" /\ courses[1].students # <<>>
    /\ courses[2].teacherId = "t2" /\ courses[2].students = <<>>
    /\ courses[1].code # courses[2].code

(***************************************************************************)
(* The bearer check in front of the protected routes: auth of              *)
(* src/unnamed/part_001 and authMiddleware of the third copy of            *)
(* src/Backend/server.js, over the same database.                          *)
(***************************************************************************)
\* the Authorization headers a request can carry: none (present FALSE), a
\* scheme without a token (token FALSE), and a token naming a user, signed
\* with JWT_SECRET and unexpired (signed TRUE) or not
Headers ==
    {[present |-> FALSE, token |-> FALSE, user |-> "", signed |-> FALSE],
     [present |-> TRUE, token |-> FALSE, user |-> "", signed |-> FALSE]}
    \cup [present : {TRUE}, token : {TRUE}, user : Users, signed : BOOLEAN]

\* the token is decoded without its signature being verified
authDecodeOnly(h) == IF ~h.present \/ ~h.token THEN 401 ELSE 0

\* auth: the status it answers with, or 0 when it calls next()
auth(h) ==
    IF ~h.present \/ ~h.token THEN 401
    ELSE IF h.signed THEN 0 ELSE 401

\* authMiddleware: the status it answers with, or 0 when it calls next()
authMiddleware(h) ==
    IF ~h.present THEN 401
    ELSE IF ~h.token THEN 401
    ELSE IF h.signed THEN 0 ELSE 401

\* return res.status(401).json(...) of the middleware: no handler runs
Rejected(status) ==
    /\ res' = Response("auth", "", 0, None, status, None)
    /\ UNCHANGED <<courses, assignments, cloud, nextUrl, now, users, messages, inflight, nextToken>>

\* req.user.id
Caller(h) == h.user

\* app.METHOD(path, auth, handler)
Via(h, handler) == IF auth(h) # 0 THEN Rejected(auth(h)) ELSE handler

\* app.METHOD(path, authMiddleware, handler)
ViaV3(h, handler) ==
    IF authMiddleware(h) # 0 THEN Rejected(authMiddleware(h)) ELSE handler

\* a request with header h to a protected route of src/unnamed/part_001
Request(h) ==
    \/ Via(h, CreateCourse(Caller(h), "Algorithms", 1)
              /\ UNCHANGED <<users, messages, inflight, nextToken>>)
    \/ Via(h, JoinCourse(Caller(h), 1) /\ UNCHANGED <<users, messages, inflight, nextToken>>)
    \/ \E t \in Titles :
          Via(h, CreateAssignment(Caller(h), 1, t, None, Num(10))
                 /\ UNCHANGED <<users, messages, inflight, nextToken>>)
    \/ Via(h, SubmitFiles(Caller(h), 1, <<"a.pdf">>, 0)
              /\ UNCHANGED <<users, messages, inflight, nextToken>>)
    \/ Via(h, ListSubmissions(Caller(h), 1) /\ UNCHANGED <<users, messages, inflight, nextToken>>)
    \/ Via(h, Grade(Caller(h), 1, "s1", Some(5), None)
              /\ UNCHANGED <<users, messages, inflight, nextToken>>)
    \/ Via(h, DeleteFile(Caller(h), 1, 1, TRUE)
              /\ UNCHANGED <<users, messages, inflight, nextToken>>)
    \/ \E content \in Contents : Via(h, PostMessage(Caller(h), 1, content))
    \/ Via(h, GetMessages(Caller(h), 1))
    \/ Via(h, DashboardSummary(Caller(h)) /\ UNCHANGED <<users, messages, inflight, nextToken>>)

\* a request with header h to a protected route of the third copy
RequestV3(h) ==
    \/ ViaV3(h, CreateCourseV3(Caller(h), "Algorithms", 1)
                /\ UNCHANGED <<users, messages, inflight, nextToken>>)
    \/ ViaV3(h, JoinCourseV3(Caller(h), 1) /\ UNCHANGED <<users, messages, inflight, nextToken>>)
    \/ ViaV3(h, GradeV3(Caller(h), 1, "s1", Some(5), None)
                /\ UNCHANGED <<users, messages, inflight, nextToken>>)

NextAuth ==
    \/ \E h \in Headers : Idle /\ Request(h)
    \/ \E h \in Headers : Idle /\ RequestV3(h)
    \/ Delivered

SpecAuth == Init /\ [][NextAuth]_vars

\* the header carries no token that jwt.verify accepts
BadHeader(h) == ~h.present \/ ~h.token \/ ~h.signed

\* C21: a request to a bearer-protected route whose token is missing or
\* invalid is answered 401, whatever its other inputs and whatever role,
\* input or ownership check the route has, and it changes no stored user,
\* course, assignment, submission or message (nor the remote store).
C21_UnauthorizedFirst ==
    [][\A h \in {g \in Headers : BadHeader(g)} :
          (Request(h) \/ RequestV3(h)) =>
             /\ res'.status = 401
             /\ UNCHANGED <<users, courses, assignments, messages, cloud>>
      ]_vars

\* a request without a valid token was refused while courses, assignments,
\* submissions and messages exist
C21_Witness ==
    /\ res.op = "auth" /\ res.status = 401
    /\ courses # <<>> /\ messages # <<>>
    /\ Len(assignments) = 1 /\ assignments[1].submissions # <<>>

(***************************************************************************)
(* The records of src/unnamed/part_001 over their whole life: accounts,    *)
(* one course, one assignment, its submissions, their files and grades.    *)
(***************************************************************************)
\* the complete signups of one student and one teacher
RecordSignups ==
    {r \in SignupRequests :
        /\ r.name = "Ann" /\ r.password /\ r.details
        /\ \/ r.role = "student" /\ r.rollNumber = Some("r1") /\ r.email = None
           \/ r.role = "teacher" /\ r.email = Some("e1") /\ r.rollNumber = None}

NextRecords ==
    \/ \E r \in RecordSignups : Idle /\ Signup(r)
    \/ Lifecycle /\ CreateCourse("t1", "Algorithms", 1)
    \/ \E u \in Students : Lifecycle /\ JoinCourse(u, 1)
    \/ Lifecycle /\ CreateAssignment("t1", 1, "HW1", None, Num(10))
    \/ \E u \in Students : Lifecycle /\ SubmitFiles(u, 1, <<"a.pdf">>, 0)
    \/ \E sid \in Students : Lifecycle /\ Grade("t1", 1, sid, Some(5), None)
    \/ \E u \in Students, url \in 1..MaxUploads, ok \in BOOLEAN :
          Lifecycle /\ DeleteFile(u, 1, url, ok)
    \/ Delivered

SpecRecords == Init /\ [][NextRecords]_vars

\* C22: no step removes a user, a course, an assignment or a submission
\* record: each one of a state is there in the next state, under the same id
\* (assignment, student); Delete file in particular keeps the record.
C22_NothingRemoved ==
    [][/\ \A i \in 1..Len(users) :
             i <= Len(users') /\ users'[i].id = users[i].id
       /\ \A i \in 1..Len(courses) :
             i <= Len(courses') /\ courses'[i].id = courses[i].id
       /\ \A i \in 1..Len(assignments) :
             /\ i <= Len(assignments')
             /\ assignments'[i].id = assignments[i].id
             /\ \A k \in 1..Len(assignments[i].submissions) :
                   \E h \in 1..Len(assignments'[i].submissions) :
                      assignments'[i].submissions[h].studentId
                         = assignments[i].submissions[k].studentId
      ]_vars

\* s1 deleted its only file: the record is still there, beside s2's, and an
\* account exists
C22_Witness ==
    /\ res.op = "deleteFile" /\ res.status = 200 /\ res.user = "s1"
    /\ users # <<>>
    /\ Len(assignments) = 1
    /\ Len(assignments[1].submissions) = 2
    /\ \E k \in 1..2 :
          /\ assignments[1].submissions[k].studentId = "s1"
          /\ assignments[1].submissions[k].files = <<>>
    /\ cloud = {2}

\* C23: when a student whose submission is graded uploads more files, the
\* submission keeps its marks and feedback (and its student); the uploaded
\* files are appended to its file list, and its timestamp and late flag are
\* set from the time of the upload.
C23_GradeSurvivesUpload ==
    [][(res'.op = "submit" /\ res'.status = 200) =>
         LET i == FindAssignment(res'.target)
             k == FindSubmission(assignments[i], res'.user)
         IN (k # 0 /\ assignments[i].submissions[k].marks # None) =>
               LET old == assignments[i].submissions[k]
                   new == assignments'[i].submissions[k]
               IN /\ new.marks = old.marks
                  /\ new.feedback = old.feedback
                  /\ new.studentId = old.studentId
                  /\ Len(new.files) >= Len(old.files)
                  /\ SubSeq(new.files, 1, Len(old.files)) = old.files
                  /\ new.submittedAt = now
                  /\ new.isLate = (now > assignments[i].dueDate)
      ]_vars

\* a graded submission with feedback received a second file
C23_Witness ==
    /\ res.op = "submit" /\ res.status = 200
    /\ res.body.marks # None /\ res.body.feedback # None
    /\ Len(res.body.files) = 2
    /\ \E i \in 1..Len(assignments) :
          \E k \in 1..Len(assignments[i].submissions) :
             assignments[i].submissions[k] = res.body

\* C24: every stored submission record holds at least one file.
C24_SubmissionHasFiles ==
    \A i \in 1..Len(assignments) :
        \A k \in 1..Len(assignments[i].submissions) :
            assignments[i].submissions[k].files # <<>>

(***************************************************************************)
(* Concurrent requests on src/unnamed/part_001.  Each handler is split at  *)
(* its awaits: findOne reads the stored document into the request, the     *)
(* transfers run, and save() writes.  Mongoose's save() sends the changes  *)
(* of the loaded document, not the document: a push onto an array is a     *)
(* $push on the stored array that increments __v; a change inside an array *)
(* element is addressed by the element's position and carries the loaded   *)
(* __v as a condition, so that it fails (VersionError) when __v was        *)
(* incremented after the document was loaded.                              *)
(***************************************************************************)
\* no request is being handled concurrently
Quiet == inflight = NoRequests

\* the $inc of __v by the save of slot p, seen by the other requests that
\* hold the same document
Bumped(p, inc) ==
    [q \in Slots |->
        IF q # p /\ inc /\ inflight[q].route = inflight[p].route
                /\ inflight[q].pc \in {"found", "uploaded"}
        THEN [inflight[q] EXCEPT !.stale = TRUE]
        ELSE inflight[q]]

\* the request of slot p is answered
Answered(slots, p, status) ==
    [slots EXCEPT ![p].pc = "done", ![p].status = status]

\* POST /api/courses/:courseId/join up to `await Course.findOne`
JoinFind(p, u, cid) ==
    /\ inflight[p].pc = "idle"
    /\ UNCHANGED <<courses, assignments, cloud, nextUrl, now, res, users, messages, nextToken>>
    /\ LET req == [inflight[p] EXCEPT !.route = "join", !.user = u]
       IN IF Role(u) # "student"
          THEN inflight' = Answered([inflight EXCEPT ![p] = req], p, 403)
          ELSE IF FindCourse(cid) = 0
          THEN inflight' = Answered([inflight EXCEPT ![p] = req], p, 404)
          ELSE inflight' =
                  [inflight EXCEPT ![p] =
                      [req EXCEPT !.pc = "found",
                                  !.doc = Some(courses[FindCourse(cid)])]]

\* the rest of the join: includes, push, save, res.json
JoinSave(p) ==
    /\ inflight[p].pc = "found" /\ inflight[p].route = "join"
    /\ UNCHANGED <<assignments, cloud, nextUrl, now, res, users, messages, nextToken>>
    /\ LET course == inflight[p].doc[1]
           u == inflight[p].user
           i == FindCourse(course.id)
       IN IF ~Includes(course.students, u)
          THEN /\ courses' = [courses EXCEPT ![i].students = Append(@, u)]
               /\ inflight' = Answered(Bumped(p, TRUE), p, 200)
          ELSE /\ UNCHANGED courses
               /\ inflight' = Answered(inflight, p, 200)

\* POST /api/assignments/:id/submit up to the enrollment check
SubmitFind(p, u, aid, files) ==
    /\ inflight[p].pc = "idle"
    /\ UNCHANGED <<courses, assignments, cloud, nextUrl, now, res, users, messages, nextToken>>
    /\ LET req == [inflight[p] EXCEPT !.route = "submit", !.user = u,
                                      !.files = files]
       IN IF Role(u) # "student"
          THEN inflight' = Answered([inflight EXCEPT ![p] = req], p, 403)
          ELSE IF FindAssignment(aid) = 0
          THEN inflight' = Answered([inflight EXCEPT ![p] = req], p, 404)
          ELSE IF NotEnrolled(u, assignments[FindAssignment(aid)])
          THEN inflight' = Answered([inflight EXCEPT ![p] = req], p, 403)
          ELSE inflight' =
                  [inflight EXCEPT ![p] =
                      [req EXCEPT !.pc = "found",
                                  !.doc = Some(assignments[FindAssignment(aid)])]]

\* the transfers of the request's files to the remote store (all succeed)
SubmitUpload(p) ==
    /\ inflight[p].pc = "found" /\ inflight[p].route = "submit"
    /\ UNCHANGED <<courses, assignments, now, res, users, messages, nextToken>>
    /\ LET files == inflight[p].files
       IN /\ nextUrl + Len(files) - 1 <= MaxUploads
          /\ cloud' = CloudAfter(Len(files))
          /\ nextUrl' = nextUrl + Len(files)
          /\ inflight' = [inflight EXCEPT ![p].pc = "uploaded",
                                          ![p].uploaded = Uploaded(files, Len(files))]

\* the save re-reads the stored assignment and extends the record it finds
SavedAfterReread(p) ==
    SubmittedList(assignments[FindAssignment(inflight[p].doc[1].id)],
                  inflight[p].user, inflight[p].uploaded)

\* the stored submission list after the save of slot p: the record the
\* handler did not find in its loaded assignment is pushed; the one it found
\* is changed at its position
Saved(p) ==
    LET assignment == inflight[p].doc[1]
        u == inflight[p].user
        k == FindSubmission(assignment, u)
        stored == assignments[FindAssignment(assignment.id)].submissions
    IN IF k = 0
       THEN Append(stored, SubmittedRecord(assignment, u, inflight[p].uploaded))
       ELSE [stored EXCEPT ![k].files = @ \o inflight[p].uploaded,
                           ![k].submittedAt = now,
                           ![k].isLate = now > assignment.dueDate]

\* the rest of the submit: find the student's record in the loaded
\* assignment, push or extend it, save, res.json; a VersionError is caught
\* and answered 500
SubmitSave(p) ==
    /\ inflight[p].pc = "uploaded" /\ inflight[p].route = "submit"
    /\ UNCHANGED <<courses, cloud, nextUrl, now, res, users, messages, nextToken>>
    /\ LET assignment == inflight[p].doc[1]
           k == FindSubmission(assignment, inflight[p].user)
           i == FindAssignment(assignment.id)
       IN IF k # 0 /\ inflight[p].stale
          THEN /\ UNCHANGED assignments
               /\ inflight' = Answered(inflight, p, 500)
          ELSE /\ assignments' = [assignments EXCEPT ![i].submissions = Saved(p)]
               /\ inflight' =
                     Answered(Bumped(p, k = 0 \/ inflight[p].uploaded # <<>>),
                              p, 200)

NextRace ==
    \/ Quiet /\ Lifecycle /\ CreateCourse("t1", "Algorithms", 1)
    \/ \E u \in Students : Quiet /\ Lifecycle /\ JoinCourse(u, 1)
    \/ Quiet /\ Lifecycle /\ CreateAssignment("t1", 1, "HW1", None, Num(10))
    \/ \E u \in Students : Quiet /\ Lifecycle /\ SubmitFiles(u, 1, <<>>, 0)
    \/ Quiet /\ Delivered
    \/ \E p \in Slots, u \in Users : JoinFind(p, u, 1)
    \/ \E p \in Slots : JoinSave(p)
    \/ \E p \in Slots, u \in Users : SubmitFind(p, u, 1, <<"a.pdf">>)
    \/ \E p \in Slots : SubmitUpload(p)
    \/ \E p \in Slots : SubmitSave(p)

SpecRace == Init /\ [][NextRace]_vars


\* slot p holds a finished Submit files request of a student who passed the
\* checks and transferred files
Uploader(p) ==
    /\ inflight[p].route = "submit" /\ inflight[p].pc = "done"
    /\ inflight[p].uploaded # <<>>

\* the files of the stored submission record that the handlers find for
\* student u on assignment aid (none without a record)
FilesOf(u, aid) ==
    LET a == assignments[FindAssignment(aid)]
    IN IF FindSubmission(a, u) = 0 THEN {}
       ELSE {a.submissions[FindSubmission(a, u)].files[j] :
                j \in 1..Len(a.submissions[FindSubmission(a, u)].files)}

\* the file objects the request of slot p transferred
UploadedBy(p) == {inflight[p].uploaded[j] : j \in 1..Len(inflight[p].uploaded)}

\* C25: when two Submit files requests by different students on the same
\* assignment have both completed, whatever their interleaving, both were
\* answered 200 and each student's submission holds exactly the files that
\* student uploaded.
C25_DifferentStudentsIndependent ==
    \A p, q \in Slots :
        (/\ p # q /\ Uploader(p) /\ Uploader(q)
         /\ inflight[p].user # inflight[q].user)
        => /\ inflight[p].status = 200
           /\ FilesOf(inflight[p].user, inflight[p].doc[1].id) = UploadedBy(p)

\* C26: two concurrent Submit files requests of the same student, neither of
\* which found a record of the student in the assignment it loaded, both
\* succeed, and the submission the handlers find for the student afterwards
\* lacks the files of one of them.
C26_SameStudentRace ==
    \A p, q \in Slots :
        (/\ p # q /\ Uploader(p) /\ Uploader(q)
         /\ inflight[p].user = inflight[q].user
         /\ FindSubmission(inflight[p].doc[1], inflight[p].user) = 0
         /\ FindSubmission(inflight[q].doc[1], inflight[q].user) = 0)
        => /\ inflight[p].status = 200 /\ inflight[q].status = 200
           /\ \E r \in {p, q} :
                 UploadedBy(r) \cap FilesOf(inflight[r].user, inflight[r].doc[1].id) = {}

\* both requests of s1 were answered 200 and the record found for s1 holds
\* one of the two files in the remote store
C26_Witness ==
    /\ Uploader(1) /\ Uploader(2)
    /\ inflight[1].user = "s1" /\ inflight[2].user = "s1"
    /\ inflight[1].status = 200 /\ inflight[2].status = 200
    /\ cloud = {1, 2}
    /\ Cardinality(FilesOf("s1", 1)) = 1

\* C27: when two Join requests of the same student for the same course have
\* both read the course before either saved, the student's id is in the
\* enrollment set exactly once after both completed.
C27_ConcurrentJoinOnce ==
    \A p, q \in Slots :
        (/\ p # q
         /\ inflight[p].route = "join" /\ inflight[q].route = "join"
         /\ inflight[p].pc = "done" /\ inflight[q].pc = "done"
         /\ inflight[p].status = 200 /\ inflight[q].status = 200
         /\ inflight[p].user = inflight[q].user
         /\ ~Includes(inflight[p].doc[1].students, inflight[p].user)
         /\ ~Includes(inflight[q].doc[1].students, inflight[q].user))
        => LET students == courses[FindCourse(inflight[p].doc[1].id)].students
           IN Cardinality({j \in 1..Len(students) :
                              students[j] = inflight[p].user}) = 1

\* C28: with the clock non-decreasing and due dates fixed, the late flag of
\* a submission never goes back from true to false, and no step other than a
\* Submit files changes it.
C28_LateFlagMonotone ==
    [][/\ now' >= now
       /\ \A i \in 1..Len(assignments) :
             /\ assignments'[i].dueDate = assignments[i].dueDate
             /\ \A k \in 1..Len(assignments[i].submissions) :
                   LET old == assignments[i].submissions[k]
                       new == assignments'[i].submissions[k]
                   IN /\ new.studentId = old.studentId
                      /\ old.isLate => new.isLate
                      /\ res'.op # "submit" => new.isLate = old.isLate
      ]_vars

\* a late submission received another upload, after the due date as well
C28_Witness ==
    /\ res.op = "submit" /\ res.status = 200
    /\ res.body.isLate /\ Len(res.body.files) = 2
    /\ now = 1
    /\ \E i \in 1..Len(assignments) :
          /\ assignments[i].dueDate = 0
          /\ \E k \in 1..Len(assignments[i].submissions) :
                assignments[i].submissions[k] = res.body

(***************************************************************************)
(* Profiles and passwords of src/unnamed/part_001: PUT /api/me,            *)
(* POST /api/forgot-password and POST /api/reset-password, on the accounts *)
(* created by signup.                                                      *)
(***************************************************************************)
MaxTokens == 2
TokenLife == 1

Passwords == {"pw0", "pw1"}

\* the bodies sent to PUT /api/me (None: field absent): no profile field or
\* every profile field, with or without the two passwords
ProfileRequests ==
    [name : {None}, branch : {None}, year : {None}, department : {None},
     profilePhotoUrl : {None},
     currentPassword : {None, Some("pw0"), Some("pw1")},
     newPassword : {None, Some("pw1")}]
    \cup [name : {Some("Bob")}, branch : {Some("ECE")}, year : {Some("2")},
          department : {Some("Physics")}, profilePhotoUrl : {Some("photo")},
          currentPassword : {None, Some("pw0"), Some("pw1")},
          newPassword : {None, Some("pw1")}]

\* User.findOne({ id }): the position of the account, 0 without one
FindUser(id) == First({i \in 1..Len(users) : users[i].id = id})

\* the loaded user after the assignments of PUT /api/me that precede the
\* password check
Edited(user, r) ==
    [user EXCEPT
       !.name = IF r.name # None THEN r.name[1] ELSE @,
       !.branch = IF user.role = "student" /\ r.branch # None THEN r.branch ELSE @,
       !.year = IF user.role = "student" /\ r.year # None THEN r.year ELSE @,
       !.department =
           IF user.role = "teacher" /\ r.department # None THEN r.department ELSE @,
       !.profilePhotoUrl = IF r.profilePhotoUrl # None THEN r.profilePhotoUrl ELSE @]

\* the edits made before the password check are stored all the same
StoredAnyway(i, r) == [users EXCEPT ![i] = Edited(users[i], r)]

\* the User collection after `return res.status(400)` on a wrong current
\* password: the return precedes user.save()
AfterWrongPassword(i, r) == users

\* PUT /api/me, for the account the token names
UpdateProfile(id, r) ==
    /\ UNCHANGED <<courses, assignments, cloud, nextUrl, now, messages, inflight,
                   nextToken>>
    /\ IF FindUser(id) = 0
       THEN /\ res' = Response("updateProfile", "", id, None, 404, None)
            /\ UNCHANGED users
       ELSE LET i == FindUser(id)
                user == Edited(users[i], r)
            IN IF r.currentPassword # None /\ r.newPassword # None
               THEN IF ~compare(r.currentPassword[1], user.passwordHash)
                    THEN /\ res' = Response("updateProfile", "", id, None, 400, None)
                         /\ users' = AfterWrongPassword(i, r)
                    ELSE /\ users' = [users EXCEPT ![i] =
                                         [user EXCEPT !.passwordHash =
                                                         hash(r.newPassword[1])]]
                         /\ res' = Response("updateProfile", "", id, None, 200, None)
               ELSE /\ users' = [users EXCEPT ![i] = user]
                    /\ res' = Response("updateProfile", "", id, None, 200, None)

\* req.body.identifier of POST /api/forgot-password ("": none)
Identifiers == {"", "r1", "e1", "e2"}

\* User.findOne({ email }) || User.findOne({ rollNumber })
FindByIdentifier(identifier) ==
    IF \E i \in 1..Len(users) : users[i].email = Some(identifier)
    THEN First({i \in 1..Len(users) : users[i].email = Some(identifier)})
    ELSE First({i \in 1..Len(users) : users[i].rollNumber = Some(identifier)})

\* POST /api/forgot-password
ForgotPassword(identifier) ==
    /\ UNCHANGED <<courses, assignments, cloud, nextUrl, now, messages, inflight>>
    /\ IF identifier = ""
       THEN /\ res' = Response("forgot", "", 0, None, 400, None)
            /\ UNCHANGED <<users, nextToken>>
       ELSE IF FindByIdentifier(identifier) = 0
       THEN /\ res' = Response("forgot", "", 0, None, 200, None)
            /\ UNCHANGED <<users, nextToken>>
       ELSE /\ nextToken <= MaxTokens
            /\ nextToken' = nextToken + 1
            /\ users' = [users EXCEPT
                           ![FindByIdentifier(identifier)].resetPasswordToken =
                               Some(nextToken),
                           ![FindByIdentifier(identifier)].resetPasswordExpires =
                               Some(now + TokenLife)]
            /\ res' = Response("forgot", "", FindByIdentifier(identifier), None,
                               200, Some(nextToken))

\* the token is looked up whatever its expiry
FindByTokenExpired(token) ==
    First({i \in 1..Len(users) : users[i].resetPasswordToken = Some(token)})

\* User.findOne({ resetPasswordToken: token,
\*                resetPasswordExpires: { $gt: new Date() } })
FindByToken(token) ==
    First({i \in 1..Len(users) :
              /\ users[i].resetPasswordToken = Some(token)
              /\ users[i].resetPasswordExpires # None
              /\ users[i].resetPasswordExpires[1] > now})

\* POST /api/reset-password (token 0: none; newPassword "": none)
ResetPassword(token, newPassword) ==
    /\ UNCHANGED <<courses, assignments, cloud, nextUrl, now, messages, inflight,
                   nextToken>>
    /\ IF token = 0 \/ newPassword = ""
       THEN /\ res' = Response("reset", "", token, None, 400, None)
            /\ UNCHANGED users
       ELSE IF FindByToken(token) = 0
       THEN /\ res' = Response("reset", "", token, None, 400, None)
            /\ UNCHANGED users
       ELSE /\ users' = [users EXCEPT
                           ![FindByToken(token)].passwordHash = hash(newPassword),
                           ![FindByToken(token)].resetPasswordToken = None,
                           ![FindByToken(token)].resetPasswordExpires = None]
            /\ res' = Response("reset", "", token, None, 200, None)

NextAccounts ==
    \/ \E r \in RecordSignups : Idle /\ Signup(r)
    \/ \E id \in 1..MaxUsers, r \in ProfileRequests : Idle /\ UpdateProfile(id, r)
    \/ \E identifier \in Identifiers : Idle /\ ForgotPassword(identifier)
    \/ \E token \in 0..MaxTokens, newPassword \in {""} \cup Passwords :
          Idle /\ ResetPassword(token, newPassword)
    \/ Lifecycle /\ Tick
    \/ Delivered

SpecAccounts == Init /\ [][NextAccounts]_vars


\* C29: a PUT /api/me carrying a wrong current password together with a new
\* password is answered 400 and stores nothing: every user document (hash,
\* name, branch, year, department, photo) is as before.
C29_WrongPasswordPersistsNothing ==
    [][res'.op = "updateProfile" =>
         \A r \in ProfileRequests :
            (/\ UpdateProfile(res'.target, r)
             /\ FindUser(res'.target) # 0
             /\ r.currentPassword # None /\ r.newPassword # None
             /\ users[FindUser(res'.target)].passwordHash
                   # hash(r.currentPassword[1]))
            => (res'.status = 400 /\ users' = users)
      ]_vars

\* a profile update was refused and the account still has the name, the
\* photo and the password it signed up with
C29_Witness ==
    /\ res.op = "updateProfile" /\ res.status = 400
    /\ FindUser(res.target) # 0
    /\ users[FindUser(res.target)].name = "Ann"
    /\ users[FindUser(res.target)].profilePhotoUrl = None
    /\ users[FindUser(res.target)].passwordHash = hash("pw0")

\* some account holds the token, unexpired
TokenValid(token) ==
    \E i \in 1..Len(users) :
        /\ users[i].resetPasswordToken = Some(token)
        /\ users[i].resetPasswordExpires # None
        /\ users[i].resetPasswordExpires[1] > now

\* C30: reset-password changes a password only when given the token an
\* account currently holds (the last one forgot-password issued to it) and
\* only before its expiry, and then clears it; with any other token it is
\* answered 400 and changes nothing.  A token an account holds is replaced
\* only by nothing or by a token never issued before, so a used or
\* superseded token is never valid again.
C30_ResetTokenSingleUse ==
    [][/\ res'.op = "reset" =>
            \A pw \in Passwords :
               ResetPassword(res'.target, pw) =>
                  IF TokenValid(res'.target)
                  THEN /\ res'.status = 200
                       /\ \A i \in 1..Len(users) :
                             IF users[i].resetPasswordToken = Some(res'.target)
                             THEN /\ users'[i].passwordHash = hash(pw)
                                  /\ users'[i].resetPasswordToken = None
                             ELSE users'[i] = users[i]
                  ELSE res'.status = 400 /\ users' = users
       /\ \A i \in 1..Len(users) :
             /\ users'[i].resetPasswordToken # users[i].resetPasswordToken
                   => \/ users'[i].resetPasswordToken = None
                      \/ /\ users'[i].resetPasswordToken = Some(nextToken)
                         /\ nextToken' = nextToken + 1
                         /\ users'[i].resetPasswordExpires = Some(now + TokenLife)
             /\ users[i].resetPasswordToken # None
                   => users[i].resetPasswordToken[1] < nextToken
             /\ users'[i].passwordHash # users[i].passwordHash
                   => res'.op \in {"reset", "updateProfile"} /\ res'.status = 200
      ]_vars

\* a token that was issued is refused: it was used, superseded or has expired
C30_Witness ==
    /\ res.op = "reset" /\ res.status = 400
    /\ res.target > 0 /\ res.target < nextToken
    /\ \E i \in 1..Len(users) :
          /\ users[i].passwordHash = hash("pw1")
          /\ users[i].resetPasswordToken = None

====
